---------------------------- MODULE Spec2Model ----------------------------
(***************************************************************************)
(* Verification model of bhtom_photometry: the sky matcher                 *)
(* (find_nearest_object), the ephemeris lookup (find_nearest_mjd_position),*)
(* the two reducers (process_static_object_photometry,                     *)
(* process_asteroid_photometry), the band filter, the reader of the        *)
(* reference definitions, the light-curve time axis and the command-line   *)
(* entry point of src/process_photometry.py, and the cross-comparison      *)
(* script src/compare_photometry.py.                                       *)
(*                                                                         *)
(* Units.  Sky coordinates are integers counting arcseconds (the source    *)
(* holds degrees as floats; 1 degree = 3600 arcsec), so the validity       *)
(* bounds -90, 90, 0, 360 degrees become -324000, 324000, 0, 1296000.      *)
(* Magnitudes are tagged values: a finite number of millimagnitudes, NaN,  *)
(* +inf or -inf.  Times are integers counting seconds (the source holds    *)
(* MJDs in days and elapsed times in hours as floats; 1 day = 86400 s,     *)
(* 1 hour = 3600 s).  Text is a sequence of one-character strings.  pandas *)
(* positions and labels are 0-based in the source and 1-based here.        *)
(***************************************************************************)
EXTENDS Integers, Sequences, FiniteSets, TLC

VARIABLES
    fn,              \* the function this run applies
    pc,              \* "ready" | "returned" | "raised"
    df,              \* find_nearest_object: the catalog (a DataFrame)
    ra,              \* find_nearest_object: reference right ascension
    dec,             \* find_nearest_object: reference declination
    max_distance,    \* find_nearest_object: tolerance in arcsec
    photometry_data, \* reducers: the epochs, in dict insertion order
    positions_df,    \* process_asteroid_photometry: the ephemeris as given
    objects,         \* reducers: the reference definitions
    ret,             \* the value returned
    objects_dat,     \* the file objects.dat: its lines
    args,            \* main: the parsed command line
    pkl,             \* the file data/photometry_data.pkl: the epochs stored
    stdout,          \* the reports printed
    files,           \* the files written
    exit_code,       \* the exit status of the process, -1 while it runs
    results,         \* the measurement table (a DataFrame)
    other,           \* compare_photometry: the second series (a DataFrame)
    merged,          \* compare_photometry: the time-matched pairs
    time_offset,     \* the origin of the time axis
    time_hours,      \* compare_photometry: the elapsed times of the pairs
    jobs,            \* app.py: the dict jobs, by job id
    threads,         \* app.py: the background thread of each job
    request,         \* app.py: the JSON body of each POST /api/start_pipeline
    response,        \* app.py: the status of the answer to each POST, 0 before
    diffmag_ret,     \* convert_to_diffmag: the frame and the series returned
    diffmag_file     \* convert_to_diffmag: the rows of the file written

\* The variables of a run of a script
runVars == <<objects_dat, args, pkl, stdout, files, exit_code>>

\* The variables of the time series
seriesVars == <<results, other, merged, time_offset, time_hours>>

\* The variables of the web application
webVars == <<jobs, threads, request, response>>

\* The variables of the converter to differential magnitudes
convVars == <<diffmag_ret, diffmag_file>>

vars == <<fn, pc, df, ra, dec, max_distance, photometry_data, positions_df,
          objects, ret, runVars, seriesVars, webVars, convVars>>

-----------------------------------------------------------------------------
(* Bounds of the model *)

MaxRows == 3

MaxEpochs == 2

\* The epochs handed to the band filter
MaxLabelled == 3

\* The points of a time series
MaxPoints == 2

-----------------------------------------------------------------------------
(* Values *)

\* 360 degrees and 90 degrees, in arcsec
FullCircle == 360 * 3600

MaxDec == 90 * 3600

DefaultMaxDistance == 5

AsteroidMaxDistance == 20

Fin(v) == [k |-> "finite", v |-> v]

NaN == [k |-> "nan", v |-> 0]

PosInf == [k |-> "inf", v |-> 1]

NegInf == [k |-> "inf", v |-> -1]

\* np.isfinite
isfinite(x) == x.k = "finite"

Row(a, d, m, e) ==
    [ALPHA_J2000 |-> a, DELTA_J2000 |-> d, MAG_AUTO |-> m, MAGERR_AUTO |-> e]

\* find_nearest_object's "return None, None"
NoMatch == [found |-> FALSE, idx |-> 0, sep |-> 0]

Abs(x) == IF x < 0 THEN -x ELSE x

\* One day and one hour
Day == 86400

Hour == 3600

\* A pandas DataFrame: its column names and its rows
DataFrame(columns, rows) == [columns |-> columns, rows |-> rows]

\* No file of that name exists
NoFile == [exists |-> FALSE, columns |-> <<>>, rows |-> <<>>]

\* The command line without a --filter argument: args.filter is None
NoFilter == [given |-> FALSE, name |-> <<>>]

\* The state of the files before a run: no table, no plot, no directory
NoFiles == [csv |-> NoFile, plot |-> FALSE, dirs |-> {}]

\* No script runs
NoRun ==
    /\ objects_dat = <<>>
    /\ args = [filter |-> NoFilter]
    /\ pkl = <<>>
    /\ stdout = <<>>
    /\ files = NoFiles
    /\ exit_code = -1

\* No time series is held
NoSeries ==
    /\ results = DataFrame(<<>>, <<>>)
    /\ other = DataFrame(<<>>, <<>>)
    /\ merged = <<>>
    /\ time_offset = 0
    /\ time_hours = <<>>

\* The web application has received nothing
NoWeb ==
    /\ jobs = <<>>
    /\ threads = <<>>
    /\ request = <<>>
    /\ response = <<>>

\* No conversion is made
NoConversion ==
    /\ diffmag_ret = <<>>
    /\ diffmag_file = NoFile

-----------------------------------------------------------------------------
(* find_nearest_object *)

\* The row filter of valid_coords: DELTA_J2000 in [-90, 90], ALPHA_J2000 in
\* [0, 360).
ValidCoords(row) ==
    /\ row.DELTA_J2000 >= -MaxDec
    /\ row.DELTA_J2000 <= MaxDec
    /\ row.ALPHA_J2000 >= 0
    /\ row.ALPHA_J2000 < FullCircle

\* valid_coords.index: the labels of the rows that pass the filter, in catalog
\* order.  A catalog read by pd.read_csv carries a RangeIndex, so a row's
\* label is its position.
RECURSIVE ValidIndexFrom(_, _)
ValidIndexFrom(d, i) ==
    IF i > Len(d) THEN <<>>
    ELSE (IF ValidCoords(d[i]) THEN <<i>> ELSE <<>>) \o ValidIndexFrom(d, i + 1)

ValidIndex(d) == ValidIndexFrom(d, 1)

\* Longitude difference on the circle (astropy wraps a longitude into
\* [0, 360) before it is used).
RaDiff(a, b) ==
    LET x == (a - b) % FullCircle
    IN  IF x > FullCircle - x THEN FullCircle - x ELSE x

ISqrt(s) == CHOOSE r \in 0..s : r * r <= s /\ s < (r + 1) * (r + 1)

\* SkyCoord.separation, in arcsec.  The great-circle distance is exactly the
\* longitude difference between two points of the equator and exactly the
\* latitude difference between two points of one meridian; every pair of
\* positions of this model is of one of these two kinds.  (Elsewhere the
\* small-angle value near the equator is used, rounded down.)
Separation(ra1, dec1, ra2, dec2) ==
    LET x == RaDiff(ra1, ra2)
        y == Abs(dec1 - dec2)
    IN  IF y = 0 THEN x ELSE IF x = 0 THEN y ELSE ISqrt(x * x + y * y)

\* ArgMin with a fault: the first position, whatever it holds.
ArgMin_First(s) == 1

\* ArgMin with a fault: the last position holding the minimum.
RECURSIVE ArgMinLastFrom(_, _, _)
ArgMinLastFrom(s, i, best) ==
    IF i > Len(s) THEN best
    ELSE ArgMinLastFrom(s, i + 1, IF s[i] <= s[best] THEN i ELSE best)

ArgMin_Last(s) == ArgMinLastFrom(s, 2, 1)

\* np.argmin: the first position holding the minimum.
RECURSIVE ArgMinFrom(_, _, _)
ArgMinFrom(s, i, best) ==
    IF i > Len(s) THEN best
    ELSE ArgMinFrom(s, i + 1, IF s[i] < s[best] THEN i ELSE best)

ArgMin(s) == ArgMinFrom(s, 2, 1)

\* OriginalIdx with a fault: the position in the filtered frame.
OriginalIdx_Filtered(valid_index, min_idx) == min_idx

\* original_idx = valid_coords.index[min_idx]
OriginalIdx(valid_index, min_idx) == valid_index[min_idx]

\* TooFar with a fault: an exclusive bound.
TooFar_Exclusive(min_sep, max_dist) == min_sep >= max_dist

\* The acceptance test, written as the source writes its negation:
\* "if min_sep.arcsec > max_distance: return None, None".
TooFar(min_sep, max_dist) == min_sep > max_dist

find_nearest_object(d, r, c, max_dist) ==
    LET valid_index == ValidIndex(d)
        seps == [k \in 1..Len(valid_index) |->
                    Separation(r, c, d[valid_index[k]].ALPHA_J2000,
                               d[valid_index[k]].DELTA_J2000)]
        min_idx == ArgMin(seps)
    IN  IF Len(valid_index) = 0 THEN NoMatch
        ELSE IF TooFar(seps[min_idx], max_dist) THEN NoMatch
        ELSE [found |-> TRUE,
              idx   |-> OriginalIdx(valid_index, min_idx),
              sep   |-> seps[min_idx]]

-----------------------------------------------------------------------------
(* find_nearest_mjd_position *)

\* SortValuesMJD with a fault: the ephemeris is used as given.
SortValuesMJD_None(p) == p

\* positions_df.sort_values('MJD'): insertion of each entry after the entries
\* with an MJD not greater than its own.
RECURSIVE SortValuesMJD(_)
SortValuesMJD(p) ==
    IF Len(p) = 0 THEN <<>>
    ELSE LET rest == SortValuesMJD(Tail(p))
             before == SelectSeq(rest, LAMBDA e : e.MJD < Head(p).MJD)
             after  == SelectSeq(rest, LAMBDA e : ~(e.MJD < Head(p).MJD))
         IN  before \o <<Head(p)>> \o after

\* idx = np.abs(positions_df['MJD'] - mjd).argmin(); positions_df.iloc[idx]
find_nearest_mjd_position(p, mjd) ==
    LET dist == [k \in 1..Len(p) |-> Abs(p[k].MJD - mjd)]
        idx  == ArgMin(dist)
    IN  [RA |-> p[idx].RA, DEC |-> p[idx].DEC]

-----------------------------------------------------------------------------
(* The reducers *)

\* Iloc with a fault: the first row is read, whatever the position asked.
Iloc_First(d, idx) == d[1]

\* df.iloc[idx]: the row at position idx.
Iloc(d, idx) == d[idx]

NoRecord == [MJD |-> 0]

\* OutContinue with a fault: the epoch is not skipped, an error is raised.
OutContinue_Raise(why) == [kind |-> "raise", why |-> why, rec |-> [MJD |-> 0]]

\* One pass of a reducer's loop body ends in "append" (results.append), in
\* "continue" (with the warning printed) or in "raise".
OutAppend(rec) == [kind |-> "append", why |-> "ok", rec |-> rec]

OutContinue(why) == [kind |-> "continue", why |-> why, rec |-> NoRecord]

OutRaise(why) == [kind |-> "raise", why |-> why, rec |-> NoRecord]

\* AllFinite with a fault: only NaN is refused.
AllFinite_NotNaN(values) == \A k \in 1..Len(values) : values[k].k # "nan"

\* "if not all(np.isfinite([...])): continue", as its negation
AllFinite(values) == \A k \in 1..Len(values) : isfinite(values[k])

\* The loop body of process_static_object_photometry for one epoch.
StaticBody(data, target_coords, comp_stars) ==
    LET mjd == data.mjd
        d   == data.df
        target == find_nearest_object(d, target_coords.ra, target_coords.dec,
                                      DefaultMaxDistance)
        comp1  == find_nearest_object(d, comp_stars.comp1.ra,
                                      comp_stars.comp1.dec, DefaultMaxDistance)
        comp2  == find_nearest_object(d, comp_stars.comp2.ra,
                                      comp_stars.comp2.dec, DefaultMaxDistance)
    IN  IF ~target.found \/ ~comp1.found \/ ~comp2.found
        THEN OutContinue("Could not find all objects")
        ELSE LET target_mag    == Iloc(d, target.idx).MAG_AUTO
                 target_magerr == Iloc(d, target.idx).MAGERR_AUTO
                 comp1_mag     == Iloc(d, comp1.idx).MAG_AUTO
                 comp2_mag     == Iloc(d, comp2.idx).MAG_AUTO
             IN  IF ~AllFinite(<<target_mag, target_magerr, comp1_mag, comp2_mag>>)
                 THEN OutContinue("Invalid magnitude values")
                 ELSE OutAppend([MJD           |-> mjd,
                              TARGET_RA     |-> Iloc(d, target.idx).ALPHA_J2000,
                              TARGET_DEC    |-> Iloc(d, target.idx).DELTA_J2000,
                              TARGET_SEP    |-> target.sep,
                              TARGET_MAG    |-> target_mag,
                              TARGET_MAGERR |-> target_magerr,
                              COMP1_MAG     |-> comp1_mag,
                              COMP2_MAG     |-> comp2_mag])

\* positions_df['MJD'].min() and .max(), of a column that is not empty
RECURSIVE ColumnMin(_)
ColumnMin(p) ==
    IF Len(p) = 1 THEN p[1].MJD
    ELSE LET m == ColumnMin(Tail(p))
         IN  IF p[1].MJD < m THEN p[1].MJD ELSE m

RECURSIVE ColumnMax(_)
ColumnMax(p) ==
    IF Len(p) = 1 THEN p[1].MJD
    ELSE LET m == ColumnMax(Tail(p))
         IN  IF p[1].MJD > m THEN p[1].MJD ELSE m

\* OutsideRange with a fault: the bounds themselves are refused.
OutsideRange_Inclusive(p, mjd) ==
    /\ Len(p) > 0
    /\ \/ mjd <= ColumnMin(p)
       \/ mjd >= ColumnMax(p)

\* "if mjd < mjd_min or mjd > mjd_max".  The minimum and maximum of an empty
\* column are NaN, and every comparison with NaN is false.
OutsideRange(p, mjd) ==
    /\ Len(p) > 0
    /\ \/ mjd < ColumnMin(p)
       \/ mjd > ColumnMax(p)

\* find_asteroid with a fault: the default tolerance is used.
find_asteroid_Default(d, ast_pos) ==
    find_nearest_object(d, ast_pos.RA, ast_pos.DEC, DefaultMaxDistance)

\* "find_nearest_object(df, ast_pos['RA'], ast_pos['DEC'], max_distance=20.0)"
find_asteroid(d, ast_pos) ==
    find_nearest_object(d, ast_pos.RA, ast_pos.DEC, AsteroidMaxDistance)

\* The loop body of process_asteroid_photometry for one epoch; p is the
\* ephemeris after sort_values.
AsteroidBody(data, p, objs) ==
    LET mjd == data.mjd
        d   == data.df
        comp1 == find_nearest_object(d, objs.comp1.ra, objs.comp1.dec,
                                     DefaultMaxDistance)
        comp2 == find_nearest_object(d, objs.comp2.ra, objs.comp2.dec,
                                     DefaultMaxDistance)
    IN  IF OutsideRange(p, mjd)
        THEN OutContinue("outside asteroid position range")
        ELSE IF ~comp1.found \/ ~comp2.found
        THEN OutContinue("Could not find comparison stars")
        ELSE IF Len(p) = 0
        THEN OutRaise("argmin of an empty sequence")
        ELSE LET ast_pos == find_nearest_mjd_position(p, mjd)
                 ast == find_asteroid(d, ast_pos)
             IN  IF ~ast.found
                 THEN OutContinue("Could not find asteroid")
                 ELSE LET ast_mag    == Iloc(d, ast.idx).MAG_AUTO
                          ast_magerr == Iloc(d, ast.idx).MAGERR_AUTO
                          comp1_mag  == Iloc(d, comp1.idx).MAG_AUTO
                          comp2_mag  == Iloc(d, comp2.idx).MAG_AUTO
                      IN  IF ~AllFinite(<<ast_mag, ast_magerr, comp1_mag, comp2_mag>>)
                          THEN OutContinue("Invalid magnitude values")
                          ELSE OutAppend([MJD        |-> mjd,
                                       AST_RA     |-> ast_pos.RA,
                                       AST_DEC    |-> ast_pos.DEC,
                                       AST_SEP    |-> ast.sep,
                                       AST_MAG    |-> ast_mag,
                                       AST_MAGERR |-> ast_magerr,
                                       COMP1_MAG  |-> comp1_mag,
                                       COMP2_MAG  |-> comp2_mag])

\* What a reducer has done after some passes of its loop: the records
\* appended, one log entry per epoch visited, and whether a pass raised.
Started == [results |-> <<>>, log |-> <<>>, raised |-> FALSE]

\* Pass with a fault: a record is not appended when the table already ends
\* with a record of the same MJD.
Pass_Dedupe(acc, out) ==
    [results |-> IF out.kind = "append"
                    /\ ~(Len(acc.results) > 0
                         /\ acc.results[Len(acc.results)].MJD = out.rec.MJD)
                 THEN Append(acc.results, out.rec)
                 ELSE acc.results,
     log     |-> Append(acc.log, [kind |-> out.kind, why |-> out.why]),
     raised  |-> out.kind = "raise"]

\* The effect of one pass on the loop state.
Pass(acc, out) ==
    [results |-> IF out.kind = "append" THEN Append(acc.results, out.rec)
                 ELSE acc.results,
     log     |-> Append(acc.log, [kind |-> out.kind, why |-> out.why]),
     raised  |-> out.kind = "raise"]

\* "for data_id, data in photometry_data.items()" of
\* process_static_object_photometry, from epoch i on; an exception leaves the
\* loop and the function.
RECURSIVE StaticLoop(_, _, _, _, _)
StaticLoop(data, i, target_coords, comp_stars, acc) ==
    IF i > Len(data) \/ acc.raised THEN acc
    ELSE StaticLoop(data, i + 1, target_coords, comp_stars,
                    Pass(acc, StaticBody(data[i], target_coords, comp_stars)))

\* process_static_object_photometry with a fault: the table is sorted by MJD.
RECURSIVE SortRecordsMJD(_)
SortRecordsMJD(r) ==
    IF Len(r) = 0 THEN <<>>
    ELSE LET rest == SortRecordsMJD(Tail(r))
         IN  SelectSeq(rest, LAMBDA x : x.MJD < Head(r).MJD) \o <<Head(r)>>
             \o SelectSeq(rest, LAMBDA x : ~(x.MJD < Head(r).MJD))

process_static_sorted(data, target_coords, comp_stars) ==
    LET acc == StaticLoop(data, 1, target_coords, comp_stars, Started)
    IN  [acc EXCEPT !.results = SortRecordsMJD(acc.results)]

\* The table returned is pd.DataFrame(results).
process_static_object_photometry(data, target_coords, comp_stars) ==
    StaticLoop(data, 1, target_coords, comp_stars, Started)

\* The loop of process_asteroid_photometry, from epoch i on; an exception
\* leaves the loop and the function.
RECURSIVE AsteroidLoop(_, _, _, _, _)
AsteroidLoop(data, i, p, objs, acc) ==
    IF i > Len(data) \/ acc.raised THEN acc
    ELSE AsteroidLoop(data, i + 1, p, objs,
                      Pass(acc, AsteroidBody(data[i], p, objs)))

process_asteroid_photometry(data, positions, objs) ==
    AsteroidLoop(data, 1, SortValuesMJD(positions), objs, Started)

-----------------------------------------------------------------------------
(* The inputs of the reducers *)

\* The reference definitions: all three on the equator.
Objects ==
    [target |-> [ra |-> 0, dec |-> 0],
     comp1  |-> [ra |-> 100, dec |-> 0],
     comp2  |-> [ra |-> 200, dec |-> 0]]

\* comp_stars as main() builds it from objects
CompStars(objs) == [comp1 |-> objs.comp1, comp2 |-> objs.comp2]

\* The sources of the field: the target 1" from its reference position, the
\* two comparison stars at theirs,
SrcTarget == Row(1, 0, Fin(12000), Fin(10))

SrcComp1 == Row(100, 0, Fin(13000), Fin(10))

SrcComp2 == Row(200, 0, Fin(13500), Fin(10))

\* and a row whose right ascension is 360 degrees: invalid, and at the
\* target's reference position once the longitude is wrapped.
SrcInvalid == Row(FullCircle, 0, Fin(99000), Fin(990))

Field == <<SrcTarget, SrcComp1, SrcComp2>>

\* The catalogs an epoch may carry: the field, the field with one of the
\* four magnitudes not finite, with the target or a comparison star
\* displaced by 6" (out of the 5" tolerance, within the 20" one), and with
\* the invalid row in front.
EpochCatalogs ==
    {Field}
    \cup {[Field EXCEPT ![1].MAG_AUTO = NaN],
          [Field EXCEPT ![1].MAGERR_AUTO = PosInf],
          [Field EXCEPT ![2].MAG_AUTO = NaN],
          [Field EXCEPT ![3].MAG_AUTO = NegInf]}
    \cup {[Field EXCEPT ![1].ALPHA_J2000 = @ + 6],
          [Field EXCEPT ![2].ALPHA_J2000 = @ + 6]}
    \cup {<<SrcInvalid>> \o Field}

MJDs == {1, 2}

Epochs == [mjd : MJDs, df : EpochCatalogs]

EpochSeqs == UNION {[1..n -> Epochs] : n \in 0..MaxEpochs}

\* Ephemeris entries: at MJD 0 the asteroid is at the target's reference
\* position, at MJD 2 it is 10" east of it.
EphemEntries ==
    {[MJD |-> 0, RA |-> 0, DEC |-> 0], [MJD |-> 2, RA |-> 10, DEC |-> 0]}

\* The ephemerides: every list without repetition of the entries, in either
\* order (the caller need not sort it), the empty one included.
Ephemerides ==
    {<<>>}
    \cup {<<e>> : e \in EphemEntries}
    \cup {<<p[1], p[2]>> :
             p \in {q \in EphemEntries \X EphemEntries : q[1] # q[2]}}

FnStatic == "process_static_object_photometry"

FnAsteroid == "process_asteroid_photometry"

FnNearest == "find_nearest_object"

-----------------------------------------------------------------------------
(* The reducers, applied to every input *)

Init ==
    /\ fn \in {FnStatic, FnAsteroid}
    /\ pc = "ready"
    /\ photometry_data \in EpochSeqs
    /\ positions_df \in (IF fn = FnAsteroid THEN Ephemerides ELSE {<<>>})
    /\ objects = Objects
    /\ df = <<>>
    /\ ra = 0
    /\ dec = 0
    /\ max_distance = DefaultMaxDistance
    /\ ret = Started
    /\ NoRun
    /\ NoSeries
    /\ NoWeb
    /\ NoConversion

CallStatic ==
    /\ pc = "ready"
    /\ fn = FnStatic
    /\ ret' = process_static_object_photometry(photometry_data, objects.target,
                                                CompStars(objects))
    /\ pc' = IF ret'.raised THEN "raised" ELSE "returned"
    /\ UNCHANGED <<fn, df, ra, dec, max_distance, photometry_data,
                   positions_df, objects, runVars, seriesVars,
                   webVars, convVars>>

CallAsteroid ==
    /\ pc = "ready"
    /\ fn = FnAsteroid
    /\ ret' = process_asteroid_photometry(photometry_data, positions_df, objects)
    /\ pc' = IF ret'.raised THEN "raised" ELSE "returned"
    /\ UNCHANGED <<fn, df, ra, dec, max_distance, photometry_data,
                   positions_df, objects, runVars, seriesVars,
                   webVars, convVars>>

Next == CallStatic \/ CallAsteroid

Spec == Init /\ [][Next]_vars

-----------------------------------------------------------------------------
(* find_nearest_object, applied to every input *)

\* Detections on the equator at 3", -3", 5", 6", 20" and 21" of longitude, a
\* row at 360 degrees (invalid; longitude 0 once wrapped) and a row past the
\* pole (invalid).
NearestRows ==
    {Row(a, 0, Fin(12000), Fin(10)) : a \in {3, FullCircle - 3, 5, 6, 20, 21}}
    \cup {Row(FullCircle, 0, Fin(12000), Fin(10)),
          Row(0, MaxDec + 1, Fin(12000), Fin(10))}

NearestCatalogs == UNION {[1..n -> NearestRows] : n \in 0..MaxRows}

\* Reference positions
NearestRefs == {[ra |-> 0, dec |-> 0], [ra |-> 3, dec |-> 0]}

InitNearest ==
    /\ fn = FnNearest
    /\ pc = "ready"
    /\ df \in NearestCatalogs
    /\ \E ref \in NearestRefs : ra = ref.ra /\ dec = ref.dec
    /\ max_distance \in {DefaultMaxDistance, AsteroidMaxDistance}
    /\ photometry_data = <<>>
    /\ positions_df = <<>>
    /\ objects = Objects
    /\ ret = NoMatch
    /\ NoRun
    /\ NoSeries
    /\ NoWeb
    /\ NoConversion

CallNearest ==
    /\ pc = "ready"
    /\ fn = FnNearest
    /\ ret' = find_nearest_object(df, ra, dec, max_distance)
    /\ pc' = "returned"
    /\ UNCHANGED <<fn, df, ra, dec, max_distance, photometry_data,
                   positions_df, objects, runVars, seriesVars,
                   webVars, convVars>>

NextNearest == CallNearest

SpecNearest == InitNearest /\ [][NextNearest]_vars

-----------------------------------------------------------------------------
(* Vocabulary of the properties *)

\* The separation of row j of catalog d from a position
SepOf(d, j, r, c) == Separation(r, c, d[j].ALPHA_J2000, d[j].DELTA_J2000)

\* The rows of d with valid coordinates
ValidRows(d) == {j \in 1..Len(d) : ValidCoords(d[j])}

\* The rows of d that are points of the sphere, whatever their longitude
OnSphere(d) ==
    {j \in 1..Len(d) : d[j].DELTA_J2000 >= -MaxDec /\ d[j].DELTA_J2000 <= MaxDec}

NearestReturned == fn = FnNearest /\ pc = "returned"

-----------------------------------------------------------------------------
(* C2 *)

\* C2: whenever find_nearest_object returns a match, the separation it
\* returns is that of the row it designates and is less than or equal to the
\* separation of every valid detection of the catalog.
C2_GlobalMinimum ==
    (NearestReturned /\ ret.found) =>
        /\ ret.idx \in 1..Len(df)
        /\ ret.sep = SepOf(df, ret.idx, ra, dec)
        /\ \A j \in ValidRows(df) : ret.sep <= SepOf(df, j, ra, dec)

\* A match that is not the first valid row, with a valid row farther away
\* in front of it.
C2_Witness ==
    /\ NearestReturned
    /\ ret.found
    /\ ret.idx > 1
    /\ \E j \in ValidRows(df) : j < ret.idx /\ SepOf(df, j, ra, dec) > ret.sep

-----------------------------------------------------------------------------
(* C3 *)

\* C3 as stated: no match is returned if and only if the separation of
\* every detection of the catalog exceeds max_distance (every detection that
\* has a separation: a declination past a pole is no point of the sphere).
C3_NoneIffEveryDetectionFar ==
    NearestReturned =>
        (~ret.found <=>
            \A j \in OnSphere(df) : SepOf(df, j, ra, dec) > max_distance)

\* C3 amended: no match is returned if and only if the separation of every
\* detection with valid coordinates exceeds max_distance; a valid detection
\* at exactly max_distance is accepted.
C3_NoneIffEveryValidFar ==
    NearestReturned =>
        (~ret.found <=>
            \A j \in ValidRows(df) : SepOf(df, j, ra, dec) > max_distance)

\* A match returned at exactly max_distance.
C3_Witness ==
    /\ NearestReturned
    /\ ret.found
    /\ ret.sep = max_distance

-----------------------------------------------------------------------------
(* C4 *)

\* C4: when several valid detections have the minimal separation, the match
\* returned is the first of them in catalog order.
C4_FirstOfTies ==
    (NearestReturned /\ ret.found) =>
        \A j \in ValidRows(df) :
            SepOf(df, j, ra, dec) = ret.sep => ret.idx <= j

\* A match with a second detection, at another place of the sky, at the same
\* separation later in the catalog.
C4_Witness ==
    /\ NearestReturned
    /\ ret.found
    /\ \E j \in ValidRows(df) :
          /\ j > ret.idx
          /\ df[j] # df[ret.idx]
          /\ SepOf(df, j, ra, dec) = ret.sep

-----------------------------------------------------------------------------
(* Vocabulary of the reducers' properties.  These definitions state what    *)
(* the claims speak of; they use the sky geometry (ValidCoords, Separation) *)
(* and nothing else of the model of the code.                               *)

Static == fn = FnStatic

Asteroid == fn = FnAsteroid

\* A reducer has run, to its return or to an exception
Ran == fn \in {FnStatic, FnAsteroid} /\ pc # "ready"

Reduced == fn \in {FnStatic, FnAsteroid} /\ pc = "returned"

\* The valid detections of d that are within maxd of a position and no
\* farther from it than any other valid detection
NearestSet(d, r, c, maxd) ==
    {j \in ValidRows(d) :
        /\ SepOf(d, j, r, c) <= maxd
        /\ \A k \in ValidRows(d) : SepOf(d, j, r, c) <= SepOf(d, k, r, c)}

EntriesOf(p) == {p[k] : k \in 1..Len(p)}

\* The MJD of epoch i lies within the ephemeris
InRange(i) ==
    \E e \in EntriesOf(positions_df), f \in EntriesOf(positions_df) :
        e.MJD <= photometry_data[i].mjd /\ photometry_data[i].mjd <= f.MJD

BelowOrAbove(i) ==
    /\ positions_df # <<>>
    /\ \/ \A e \in EntriesOf(positions_df) : photometry_data[i].mjd < e.MJD
       \/ \A e \in EntriesOf(positions_df) : photometry_data[i].mjd > e.MJD

AtMinOrMax(i) ==
    /\ \E e \in EntriesOf(positions_df) : e.MJD = photometry_data[i].mjd
    /\ \/ \A e \in EntriesOf(positions_df) : photometry_data[i].mjd <= e.MJD
       \/ \A e \in EntriesOf(positions_df) : photometry_data[i].mjd >= e.MJD

\* The ephemeris entry closest in time to epoch i, the earlier one of two
\* equally close
ClosestEntry(i) ==
    LET mjd == photometry_data[i].mjd
    IN  CHOOSE e \in EntriesOf(positions_df) :
            \A f \in EntriesOf(positions_df) :
                \/ Abs(e.MJD - mjd) < Abs(f.MJD - mjd)
                \/ Abs(e.MJD - mjd) = Abs(f.MJD - mjd) /\ e.MJD <= f.MJD

\* The position the target is looked for at in epoch i, and the tolerance
TargetPos(i) ==
    IF Static THEN objects.target
    ELSE [ra |-> ClosestEntry(i).RA, dec |-> ClosestEntry(i).DEC]

TargetTol == IF Static THEN 5 ELSE 20

\* The target has a position in epoch i
Located(i) == Static \/ InRange(i)

TargetRows(i) ==
    IF Located(i)
    THEN NearestSet(photometry_data[i].df, TargetPos(i).ra, TargetPos(i).dec,
                    TargetTol)
    ELSE {}

Comp1Rows(i) ==
    NearestSet(photometry_data[i].df, objects.comp1.ra, objects.comp1.dec, 5)

Comp2Rows(i) ==
    NearestSet(photometry_data[i].df, objects.comp2.ra, objects.comp2.dec, 5)

\* A required role has no match within tolerance in epoch i
Unmatched(i) ==
    \/ Comp1Rows(i) = {}
    \/ Comp2Rows(i) = {}
    \/ Located(i) /\ TargetRows(i) = {}

AllMatched(i) ==
    Located(i) /\ TargetRows(i) # {} /\ Comp1Rows(i) # {} /\ Comp2Rows(i) # {}

\* One of the four magnitudes of epoch i is NaN or infinite
SomeNonFinite(i) ==
    LET d == photometry_data[i].df
    IN  \/ \E t \in TargetRows(i) : d[t].MAG_AUTO.k # "finite"
        \/ \E t \in TargetRows(i) : d[t].MAGERR_AUTO.k # "finite"
        \/ \E c \in Comp1Rows(i) : d[c].MAG_AUTO.k # "finite"
        \/ \E c \in Comp2Rows(i) : d[c].MAG_AUTO.k # "finite"

Resolvable(i) == AllMatched(i) /\ ~SomeNonFinite(i)

\* Epoch i was visited and a record was appended for it
Appended(i) == i <= Len(ret.log) /\ ret.log[i].kind = "append"

\* Epoch i was visited and skipped
Skipped(i) == i <= Len(ret.log) /\ ret.log[i].kind = "continue"

AppendsUpTo(i) == Cardinality({k \in 1..i : ret.log[k].kind = "append"})

\* The record appended for epoch i
RecordOf(i) == ret.results[AppendsUpTo(i)]

TargetMag(rec) == IF Static THEN rec.TARGET_MAG ELSE rec.AST_MAG

TargetMagErr(rec) == IF Static THEN rec.TARGET_MAGERR ELSE rec.AST_MAGERR

TargetSep(rec) == IF Static THEN rec.TARGET_SEP ELSE rec.AST_SEP

RecordFields ==
    IF Static
    THEN {"MJD", "TARGET_RA", "TARGET_DEC", "TARGET_SEP", "TARGET_MAG",
          "TARGET_MAGERR", "COMP1_MAG", "COMP2_MAG"}
    ELSE {"MJD", "AST_RA", "AST_DEC", "AST_SEP", "AST_MAG", "AST_MAGERR",
          "COMP1_MAG", "COMP2_MAG"}

-----------------------------------------------------------------------------
(* C1 *)

\* C1: every record a reducer emits carries all its fields with a finite
\* target magnitude, target magnitude error, comp1 magnitude and comp2
\* magnitude, and an epoch in which one of these four values is NaN or
\* infinite emits no record.
C1_FiniteOrNoRecord ==
    Ran =>
        /\ Len(ret.results) = AppendsUpTo(Len(ret.log))
        /\ \A k \in 1..Len(ret.results) :
              /\ DOMAIN ret.results[k] = RecordFields
              /\ TargetMag(ret.results[k]).k = "finite"
              /\ TargetMagErr(ret.results[k]).k = "finite"
              /\ ret.results[k].COMP1_MAG.k = "finite"
              /\ ret.results[k].COMP2_MAG.k = "finite"
        /\ \A i \in 1..Len(ret.log) : SomeNonFinite(i) => ~Appended(i)

\* A run that returns a record and has skipped an epoch in which all three
\* roles were matched and a magnitude was infinite.
C1_Witness ==
    /\ Reduced
    /\ Len(ret.results) >= 1
    /\ \E i \in 1..Len(photometry_data) :
          /\ AllMatched(i)
          /\ \E t \in TargetRows(i) :
                photometry_data[i].df[t].MAGERR_AUTO.k = "inf"
          /\ Skipped(i)

-----------------------------------------------------------------------------
(* C5 *)

\* C5: a detection with invalid coordinates is never the match, even when
\* it is the closest row; the catalogs keep their rows; and the magnitudes
\* (and, in static mode, the coordinates) of every record are those of the
\* rows of the unfiltered catalog that are the nearest valid detections of
\* the three reference positions.
C5_RecordReadsMatchedRows ==
    Ran =>
        /\ \A i \in 1..Len(photometry_data) :
              photometry_data[i].df \in EpochCatalogs
        /\ \A i \in 1..Len(ret.log) :
              Appended(i) =>
                LET d   == photometry_data[i].df
                    rec == RecordOf(i)
                IN  /\ \E t \in TargetRows(i) :
                          /\ TargetMag(rec) = d[t].MAG_AUTO
                          /\ TargetMagErr(rec) = d[t].MAGERR_AUTO
                          /\ TargetSep(rec) =
                                SepOf(d, t, TargetPos(i).ra, TargetPos(i).dec)
                          /\ Static => /\ rec.TARGET_RA = d[t].ALPHA_J2000
                                       /\ rec.TARGET_DEC = d[t].DELTA_J2000
                    /\ \E c \in Comp1Rows(i) : rec.COMP1_MAG = d[c].MAG_AUTO
                    /\ \E c \in Comp2Rows(i) : rec.COMP2_MAG = d[c].MAG_AUTO

\* A static run that returns a record for an epoch whose catalog holds, in
\* front of the matched rows, an invalid row closer to the target position
\* than the row matched.
C5_Witness ==
    /\ Reduced
    /\ Static
    /\ \E i \in 1..Len(photometry_data) :
          /\ Appended(i)
          /\ LET d == photometry_data[i].df
             IN  \E j \in OnSphere(d) \ ValidRows(d) :
                    /\ \A t \in TargetRows(i) : j < t
                    /\ SepOf(d, j, objects.target.ra, objects.target.dec)
                          < RecordOf(i).TARGET_SEP
                    /\ d[j].MAG_AUTO # RecordOf(i).TARGET_MAG

-----------------------------------------------------------------------------
(* C6 *)

-----------------------------------------------------------------------------
(* C7 *)

\* The MJDs of the resolvable epochs from epoch i on, in input order
RECURSIVE ResolvableMJDs(_)
ResolvableMJDs(i) ==
    IF i > Len(photometry_data) THEN <<>>
    ELSE (IF Resolvable(i) THEN <<photometry_data[i].mjd>> ELSE <<>>)
         \o ResolvableMJDs(i + 1)

\* C7: the records of the table are those of the resolvable epochs, one per
\* epoch at most, in the order of the input; they are not sorted by MJD.
C7_InputOrder ==
    Reduced =>
        /\ Len(ret.results) <= Len(photometry_data)
        /\ [k \in 1..Len(ret.results) |-> ret.results[k].MJD]
              = ResolvableMJDs(1)

\* A static table whose records are out of time order.
C7_Witness ==
    /\ Reduced
    /\ Static
    /\ Len(ret.results) = 2
    /\ ret.results[1].MJD > ret.results[2].MJD

-----------------------------------------------------------------------------
(* C8 *)

\* The reducer of this run applied to other epochs
Reduce(data) ==
    IF Static
    THEN process_static_object_photometry(data, objects.target,
                                          CompStars(objects))
    ELSE process_asteroid_photometry(data, positions_df, objects)

\* C8: for every split of the epochs in two, the run raises exactly when
\* the reduction of one of the parts does, and the table of a run that
\* returns is the table of the first part followed by the table of the
\* second.
C8_Concatenation ==
    Ran =>
        \A k \in 0..Len(photometry_data) :
            LET a == Reduce(SubSeq(photometry_data, 1, k))
                b == Reduce(SubSeq(photometry_data, k + 1, Len(photometry_data)))
            IN  /\ ret.raised <=> (a.raised \/ b.raised)
                /\ ~ret.raised => ret.results = a.results \o b.results

\* A run over two epochs with the same MJD that returns a record for each.
C8_Witness ==
    /\ Reduced
    /\ Len(photometry_data) = 2
    /\ Len(ret.results) = 2
    /\ ret.results[1].MJD = ret.results[2].MJD

-----------------------------------------------------------------------------
(* C9 *)

\* C9: in moving-target mode an epoch with an MJD below the ephemeris
\* minimum or above its maximum is skipped with the range warning and gets
\* no record; an epoch with an MJD equal to the minimum or the maximum is
\* not skipped by the range check, and gets a record when it is resolvable.
C9_RangeCheck ==
    (Ran /\ Asteroid) =>
        \A i \in 1..Len(ret.log) :
            /\ BelowOrAbove(i) =>
                  /\ Skipped(i)
                  /\ ret.log[i].why = "outside asteroid position range"
            /\ AtMinOrMax(i) =>
                  /\ ret.log[i].why # "outside asteroid position range"
                  /\ Resolvable(i) => Appended(i)

\* A run that returns a record for an epoch at the ephemeris minimum after
\* it skipped an epoch below the minimum.
C9_Witness ==
    /\ Reduced
    /\ Asteroid
    /\ \E i \in 1..Len(photometry_data), j \in 1..Len(photometry_data) :
          /\ BelowOrAbove(i)
          /\ \A e \in EntriesOf(positions_df) : photometry_data[i].mjd < e.MJD
          /\ Skipped(i)
          /\ AtMinOrMax(j)
          /\ \A e \in EntriesOf(positions_df) : photometry_data[j].mjd <= e.MJD
          /\ Appended(j)

-----------------------------------------------------------------------------
(* C10 *)

\* C10: in moving-target mode the position recorded for an epoch, and used
\* to match the target, is the (RA, DEC) of the ephemeris entry closest in
\* MJD to the epoch, the earlier of two equally close entries.
C10_NearestEntry ==
    (Reduced /\ Asteroid) =>
        \A i \in 1..Len(ret.log) :
            Appended(i) =>
                LET e   == ClosestEntry(i)
                    d   == photometry_data[i].df
                    rec == RecordOf(i)
                IN  /\ rec.AST_RA = e.RA
                    /\ rec.AST_DEC = e.DEC
                    /\ \E t \in NearestSet(d, e.RA, e.DEC, 20) :
                          /\ rec.AST_SEP = SepOf(d, t, e.RA, e.DEC)
                          /\ rec.AST_MAG = d[t].MAG_AUTO

\* A record for an epoch halfway between two entries of an ephemeris that
\* was given latest entry first.
C10_Witness ==
    /\ Reduced
    /\ Asteroid
    /\ Len(positions_df) = 2
    /\ positions_df[1].MJD > positions_df[2].MJD
    /\ \E i \in 1..Len(photometry_data) :
          /\ Appended(i)
          /\ Abs(positions_df[1].MJD - photometry_data[i].mjd)
                = Abs(positions_df[2].MJD - photometry_data[i].mjd)
          /\ RecordOf(i).AST_RA = positions_df[2].RA
          /\ positions_df[1].RA # positions_df[2].RA

-----------------------------------------------------------------------------
(* C11 *)

\* The nearest valid detection of a position in catalog d lies farther than
\* 5" and no farther than 20" from it
BetweenTolerances(d, pos) ==
    /\ NearestSet(d, pos.ra, pos.dec, 5) = {}
    /\ NearestSet(d, pos.ra, pos.dec, 20) # {}

\* C11: the tolerance is 5" for the three roles in static mode and for the
\* comparison stars in moving-target mode, and 20" for the moving target: a
\* record's target lies within 5" (static) or 20" (moving) of its position
\* and its comparison stars within 5" of theirs; an epoch whose static
\* target or whose comparison star has its nearest detection between 5" and
\* 20" away gets no record; an epoch whose moving target has its nearest
\* detection between 5" and 20" away gets a record when the comparison stars
\* are matched and the magnitudes are finite.
C11_Tolerances ==
    Ran =>
        \A i \in 1..Len(ret.log) :
            LET d == photometry_data[i].df
            IN  /\ Appended(i) =>
                      /\ TargetSep(RecordOf(i)) <= (IF Static THEN 5 ELSE 20)
                      /\ \E c \in ValidRows(d) :
                            /\ SepOf(d, c, objects.comp1.ra, objects.comp1.dec) <= 5
                            /\ RecordOf(i).COMP1_MAG = d[c].MAG_AUTO
                      /\ \E c \in ValidRows(d) :
                            /\ SepOf(d, c, objects.comp2.ra, objects.comp2.dec) <= 5
                            /\ RecordOf(i).COMP2_MAG = d[c].MAG_AUTO
                /\ (Static /\ BetweenTolerances(d, objects.target)) => Skipped(i)
                /\ BetweenTolerances(d, objects.comp1) => Skipped(i)
                /\ BetweenTolerances(d, objects.comp2) => Skipped(i)
                /\ ( /\ Asteroid
                     /\ InRange(i)
                     /\ BetweenTolerances(d, TargetPos(i))
                     /\ Comp1Rows(i) # {}
                     /\ Comp2Rows(i) # {}
                     /\ ~SomeNonFinite(i) ) => Appended(i)

\* A moving-target run that returns a record whose target was matched more
\* than 5" from the ephemeris position, and that skipped an epoch whose
\* first comparison star was 6" from its position.
C11_Witness ==
    /\ Reduced
    /\ Asteroid
    /\ \E i \in 1..Len(photometry_data), j \in 1..Len(photometry_data) :
          /\ Appended(i)
          /\ RecordOf(i).AST_SEP > 5
          /\ InRange(j)
          /\ BetweenTolerances(photometry_data[j].df, objects.comp1)
          /\ TargetRows(j) # {}
          /\ Skipped(j)

-----------------------------------------------------------------------------
(* Text *)

Lowercase ==
    <<"a", "b", "c", "d", "e", "f", "g", "h", "i", "j", "k", "l", "m",
      "n", "o", "p", "q", "r", "s", "t", "u", "v", "w", "x", "y", "z">>

Uppercase ==
    <<"A", "B", "C", "D", "E", "F", "G", "H", "I", "J", "K", "L", "M",
      "N", "O", "P", "Q", "R", "S", "T", "U", "V", "W", "X", "Y", "Z">>

IsLetterOf(alphabet, c) == \E k \in 1..Len(alphabet) : alphabet[k] = c

LetterIndex(alphabet, c) == CHOOSE k \in 1..Len(alphabet) : alphabet[k] = c

\* upper with a fault: the text is left as it is.
upper_Unchanged(s) == s

\* str.upper
upper(s) ==
    [k \in 1..Len(s) |->
        IF IsLetterOf(Lowercase, s[k])
        THEN Uppercase[LetterIndex(Lowercase, s[k])]
        ELSE s[k]]

\* str.lower
lower(s) ==
    [k \in 1..Len(s) |->
        IF IsLetterOf(Uppercase, s[k])
        THEN Lowercase[LetterIndex(Uppercase, s[k])]
        ELSE s[k]]

\* dict.get(key, default), of a dict with text keys held as a record
DictGet(d, key, default) == IF key \in DOMAIN d THEN d[key] ELSE default

\* d[key] = value
DictSet(d, key, value) ==
    [x \in (DOMAIN d) \cup {key} |-> IF x = key THEN value ELSE d[x]]

\* {}
EmptyDict == [x \in {} |-> 0]

-----------------------------------------------------------------------------
(* read_objects_data *)

\* 'target', 'comp1', 'comp2'
KeyTarget == <<"t", "a", "r", "g", "e", "t">>

KeyComp1 == <<"c", "o", "m", "p", "1">>

KeyComp2 == <<"c", "o", "m", "p", "2">>

\* The body of "for _, row in df.iterrows()": the target is stored as the
\* text f"{name},{ra},{dec}", held here as its three comma-separated fields;
\* every other row is stored under its lowered name, and a later row of a
\* name replaces an earlier one.
ReadRow(objs, row) ==
    LET name == lower(row.Type)
    IN  IF name = KeyTarget
        THEN DictSet(objs, KeyTarget, <<name, row.RA, row.DEC>>)
        ELSE DictSet(objs, name, [ra |-> row.RA, dec |-> row.DEC])

RECURSIVE ReadRows(_, _, _)
ReadRows(lines, i, objs) ==
    IF i > Len(lines) THEN objs
    ELSE ReadRows(lines, i + 1, ReadRow(objs, lines[i]))

\* MissingRequired with a fault: only the target is required.
MissingRequired_TargetOnly(objs) == KeyTarget \notin DOMAIN objs

\* "if 'target' not in objects or 'comp1' not in objects or 'comp2' not in
\* objects"
MissingRequired(objs) ==
    \/ KeyTarget \notin DOMAIN objs
    \/ KeyComp1 \notin DOMAIN objs
    \/ KeyComp2 \notin DOMAIN objs

\* The dict returned, or the ValueError raised
read_objects_data(lines) ==
    LET objs == ReadRows(lines, 1, EmptyDict)
    IN  [raised |-> MissingRequired(objs), objects |-> objs]

-----------------------------------------------------------------------------
(* filter_photometry_data *)

\* A dict of epochs is held as the sequence of its values in insertion
\* order, each with its key in the field id.

\* "band = calibration_data.get('band', '').upper()"
BandOf(data_dict) ==
    upper(DictGet(DictGet(data_dict, "calibration_data", [mjd |-> 0]),
                  "band", <<>>))

filter_photometry_data(data, filter_name) ==
    IF ~filter_name.given THEN data
    ELSE SelectSeq(data, LAMBDA data_dict :
                            BandOf(data_dict) = upper(filter_name.name))

-----------------------------------------------------------------------------
(* plot_magnitude_ratios *)

\* The difference of two finite magnitudes
MagDiff(a, b) == Fin(a.v - b.v)

\* Elapsed time from the origin: "(mjd - time_offset) * 24" turns a
\* difference in days into hours, and both are the same count of seconds.
ElapsedHours(mjd, offset) == mjd - offset

\* The columns added to the table, the origin of the time axis (the
\* smallest MJD of the table) and the plot written
plot_magnitude_ratios(frame) ==
    LET offset == ColumnMin(frame.rows)
    IN  [time_offset |-> offset,
         results |->
            DataFrame(frame.columns \o <<"TARGET_COMP1", "TARGET_COMP2",
                                        "COMP1_COMP2", "TIME_HOURS">>,
                [k \in 1..Len(frame.rows) |->
                    frame.rows[k] @@
                    [TARGET_COMP1 |-> MagDiff(frame.rows[k].TARGET_MAG,
                                              frame.rows[k].COMP1_MAG),
                     TARGET_COMP2 |-> MagDiff(frame.rows[k].TARGET_MAG,
                                              frame.rows[k].COMP2_MAG),
                     COMP1_COMP2  |-> MagDiff(frame.rows[k].COMP1_MAG,
                                              frame.rows[k].COMP2_MAG),
                     TIME_HOURS   |-> ElapsedHours(frame.rows[k].MJD, offset)]])]

-----------------------------------------------------------------------------
(* main of process_photometry.py *)

\* The keys of the result dict of process_static_object_photometry, in the
\* order of the literal
StaticColumns ==
    <<"MJD", "TARGET_RA", "TARGET_DEC", "TARGET_SEP", "TARGET_MAG",
      "TARGET_MAGERR", "COMP1_MAG", "COMP2_MAG">>

\* pd.DataFrame(results) of a list of dicts: the columns are the keys of the
\* dicts, and a DataFrame made of an empty list has no column.
FrameOfRecords(recs) ==
    DataFrame(IF Len(recs) = 0 THEN <<>> ELSE StaticColumns, recs)

\* results.to_csv(output_file, index=False): one header line made of the
\* column names, then one line per row.
to_csv(frame) == [exists |-> TRUE, columns |-> frame.columns, rows |-> frame.rows]

\* "if args.filter:" is false of None and of the empty text
Truthy(filter_name) == filter_name.given /\ filter_name.name # <<>>

Unknown == <<"U", "n", "k", "n", "o", "w", "n">>

\* The "Available filters" report: the band labels of the data as stored,
\* 'Unknown' for an epoch without a label.
AvailableFilters(all_data) ==
    {DictGet(DictGet(all_data[k], "calibration_data", [mjd |-> 0]),
             "band", Unknown) : k \in 1..Len(all_data)}

Report(msg, detail) == [msg |-> msg, detail |-> detail]

MsgMissingObjects == "ValueError: Missing required objects in objects.dat"

MsgNoDataForFilter == "ERROR: No data found for filter"

MsgNoMeasurements == "No valid measurements found!"

FnMain == "process_photometry.main"

FnFilter == "filter_photometry_data"

\* Lines 333-348: the command line is parsed, the output directories are
\* made, objects.dat is read.
MainReadObjects ==
    /\ fn = FnMain
    /\ pc = "start"
    /\ files' = [files EXCEPT !.dirs = @ \cup {"output", "plots"}]
    /\ LET r == read_objects_data(objects_dat)
       IN  IF r.raised
           THEN /\ pc' = "raised"
                /\ exit_code' = 1
                /\ stdout' = Append(stdout, Report(MsgMissingObjects, {}))
                /\ UNCHANGED objects
           ELSE /\ pc' = "objects_read"
                /\ objects' = r.objects
                /\ UNCHANGED <<exit_code, stdout>>
    /\ UNCHANGED <<df, ra, dec, max_distance, photometry_data, positions_df,
                   ret, fn, objects_dat, args, pkl, seriesVars,
                   webVars, convVars>>

\* Lines 350-358: the stored epochs are loaded.
MainLoadData ==
    /\ fn = FnMain
    /\ pc = "objects_read"
    /\ photometry_data' = pkl
    /\ pc' = "loaded"
    /\ UNCHANGED <<df, ra, dec, max_distance, positions_df, objects, ret, fn,
                   runVars, seriesVars, webVars, convVars>>

\* NothingLeft with a fault: the filtered data are never found empty.
NothingLeft_Never(filtered) == FALSE

\* "if len(photometry_data) == 0" after the filter
NothingLeft(filtered) == Len(filtered) = 0

\* Lines 360-378: the epochs are filtered when a filter is given; when none
\* is left the available filters are reported and main returns.
MainFilter ==
    /\ fn = FnMain
    /\ pc = "loaded"
    /\ IF Truthy(args.filter)
       THEN LET filtered == filter_photometry_data(photometry_data, args.filter)
            IN  /\ photometry_data' = filtered
                /\ IF NothingLeft(filtered)
                   THEN /\ stdout' = Append(stdout,
                                        Report(MsgNoDataForFilter,
                                               AvailableFilters(pkl)))
                        /\ pc' = "returned"
                        /\ exit_code' = 0
                   ELSE /\ pc' = "filtered"
                        /\ UNCHANGED <<stdout, exit_code>>
       ELSE /\ pc' = "filtered"
            /\ UNCHANGED <<photometry_data, stdout, exit_code>>
    /\ UNCHANGED <<df, ra, dec, max_distance, positions_df, objects, ret, fn,
                   objects_dat, args, pkl, files, seriesVars,
                   webVars, convVars>>

\* Lines 380-388: the coordinates are taken from the definitions (the target
\* from the fields of its text) and the static reducer is applied.
MainProcess ==
    /\ fn = FnMain
    /\ pc = "filtered"
    /\ LET target_coords == [ra  |-> objects[KeyTarget][2],
                             dec |-> objects[KeyTarget][3]]
           comp_stars == [comp1 |-> [ra  |-> objects[KeyComp1].ra,
                                     dec |-> objects[KeyComp1].dec],
                          comp2 |-> [ra  |-> objects[KeyComp2].ra,
                                     dec |-> objects[KeyComp2].dec]]
       IN  ret' = process_static_object_photometry(photometry_data,
                                                    target_coords, comp_stars)
    /\ results' = FrameOfRecords(ret'.results)
    /\ pc' = "processed"
    /\ UNCHANGED <<df, ra, dec, max_distance, photometry_data, positions_df,
                   objects, fn, runVars, other, merged, time_offset,
                   time_hours, webVars, convVars>>

\* Lines 390-397: the table is written; main returns when it has no record.
MainSave ==
    /\ fn = FnMain
    /\ pc = "processed"
    /\ files' = [files EXCEPT !.csv = to_csv(results)]
    /\ IF Len(results.rows) = 0
       THEN /\ stdout' = Append(stdout, Report(MsgNoMeasurements, {}))
            /\ pc' = "returned"
            /\ exit_code' = 0
       ELSE /\ pc' = "saved"
            /\ UNCHANGED <<stdout, exit_code>>
    /\ UNCHANGED <<df, ra, dec, max_distance, photometry_data, positions_df,
                   objects, ret, fn, objects_dat, args, pkl, seriesVars,
                   webVars, convVars>>

\* Lines 399-421: the light curve is plotted and the first measurements are
\* printed.
MainPlot ==
    /\ fn = FnMain
    /\ pc = "saved"
    /\ LET plotted == plot_magnitude_ratios(results)
       IN  /\ results' = plotted.results
           /\ time_offset' = plotted.time_offset
    /\ files' = [files EXCEPT !.plot = TRUE]
    /\ pc' = "returned"
    /\ exit_code' = 0
    /\ UNCHANGED <<df, ra, dec, max_distance, photometry_data, positions_df,
                   objects, ret, fn, objects_dat, args, pkl, stdout, other,
                   merged, time_hours, webVars, convVars>>

-----------------------------------------------------------------------------
(* The inputs of main and of the band filter *)

TypeTarget == <<"T", "a", "r", "g", "e", "t">>

TypeTARGET == <<"T", "A", "R", "G", "E", "T">>

TypeComp1 == <<"C", "o", "m", "p", "1">>

TypeComp2 == <<"C", "o", "m", "p", "2">>

TypeCOMP2 == <<"C", "O", "M", "P", "2">>

Line(type, r, c) == [Type |-> type, RA |-> r, DEC |-> c]

LineTarget == Line(TypeTarget, Objects.target.ra, Objects.target.dec)

LineComp1 == Line(TypeComp1, Objects.comp1.ra, Objects.comp1.dec)

LineComp2 == Line(TypeComp2, Objects.comp2.ra, Objects.comp2.dec)

\* A second Target line, 7" east of the first
LineTarget2 == Line(TypeTarget, Objects.target.ra + 7, Objects.target.dec)

\* The files objects.dat: the three roles; the three roles in another order
\* and in other letter cases; one role missing; two Target lines.
ObjectsFiles ==
    {<<LineTarget, LineComp1, LineComp2>>,
     <<Line(TypeCOMP2, Objects.comp2.ra, Objects.comp2.dec),
       Line(TypeTARGET, Objects.target.ra, Objects.target.dec),
       Line(KeyComp1, Objects.comp1.ra, Objects.comp1.dec)>>,
     <<LineComp1, LineComp2>>,
     <<LineTarget, LineComp2>>,
     <<LineTarget, LineComp1>>,
     <<LineTarget, LineTarget2, LineComp1, LineComp2>>}

BandLabels == {<<"R">>, <<"r">>, <<"V">>}

\* What an epoch may carry as its label: one of the labels, or none
Labels == [has : {TRUE}, band : BandLabels] \cup {[has |-> FALSE, band |-> <<>>]}

\* The catalogs of the stored epochs: the field, and the field with the
\* target magnitude not finite
StoredCatalogs == {Field, [Field EXCEPT ![1].MAG_AUTO = NaN]}

\* The MJD of the i-th stored epoch: the epochs are not in time order
EpochMJD(i) == Day + 6 * Hour - 600 * i

StoredEpoch(i, catalog, label) ==
    [id   |-> i,
     mjd  |-> EpochMJD(i),
     df   |-> catalog,
     calibration_data |->
         IF label.has THEN [mjd |-> EpochMJD(i), band |-> label.band]
         ELSE [mjd |-> EpochMJD(i)]]

\* The contents of photometry_data.pkl
StoredData ==
    UNION {{[i \in 1..n |-> StoredEpoch(i, c[i][1], c[i][2])] :
               c \in [1..n -> StoredCatalogs \X Labels]} : n \in 0..MaxEpochs}

Filter(name) == [given |-> TRUE, name |-> name]

\* The values of --filter on the command line
FilterArgs ==
    {NoFilter, Filter(<<"r">>), Filter(<<"V">>), Filter(<<"B">>),
     Filter(<<"a", "l", "l">>)}

\* The values of filter_name in a call of filter_photometry_data
FilterNames == FilterArgs \cup {Filter(<<"R">>)}

\* The epochs handed to filter_photometry_data: one catalog, every label
LabelledData ==
    UNION {{[i \in 1..n |-> StoredEpoch(i, Field, c[i])] :
               c \in [1..n -> Labels]} : n \in 0..MaxLabelled}

-----------------------------------------------------------------------------
(* main, applied to every input *)

InitMain ==
    /\ fn = FnMain
    /\ pc = "start"
    /\ objects_dat \in ObjectsFiles
    /\ args \in [filter : FilterArgs]
    /\ pkl \in StoredData
    /\ stdout = <<>>
    /\ files = NoFiles
    /\ exit_code = -1
    /\ photometry_data = <<>>
    /\ objects = EmptyDict
    /\ ret = Started
    /\ positions_df = <<>>
    /\ df = <<>>
    /\ ra = 0
    /\ dec = 0
    /\ max_distance = DefaultMaxDistance
    /\ NoSeries
    /\ NoWeb
    /\ NoConversion

NextMain ==
    \/ MainReadObjects
    \/ MainLoadData
    \/ MainFilter
    \/ MainProcess
    \/ MainSave
    \/ MainPlot

SpecMain == InitMain /\ [][NextMain]_vars

-----------------------------------------------------------------------------
(* filter_photometry_data, applied to every input *)

InitFilter ==
    /\ fn = FnFilter
    /\ pc = "ready"
    /\ photometry_data \in LabelledData
    /\ args \in [filter : FilterNames]
    /\ objects_dat = <<>>
    /\ pkl = <<>>
    /\ stdout = <<>>
    /\ files = NoFiles
    /\ exit_code = -1
    /\ objects = Objects
    /\ ret = <<>>
    /\ positions_df = <<>>
    /\ df = <<>>
    /\ ra = 0
    /\ dec = 0
    /\ max_distance = DefaultMaxDistance
    /\ NoSeries
    /\ NoWeb
    /\ NoConversion

CallFilter ==
    /\ fn = FnFilter
    /\ pc = "ready"
    /\ ret' = filter_photometry_data(photometry_data, args.filter)
    /\ pc' = "returned"
    /\ UNCHANGED <<fn, df, ra, dec, max_distance, photometry_data,
                   positions_df, objects, runVars, seriesVars,
                   webVars, convVars>>

NextFilter == CallFilter

SpecFilter == InitFilter /\ [][NextFilter]_vars

-----------------------------------------------------------------------------
(* Vocabulary of the properties of the band filter and of main *)

\* Two texts are equal when letter case is ignored
SameLetter(a, b) ==
    \/ a = b
    \/ \E k \in 1..Len(Lowercase) : {a, b} = {Lowercase[k], Uppercase[k]}

SameIgnoringCase(a, b) ==
    /\ Len(a) = Len(b)
    /\ \A k \in 1..Len(a) : SameLetter(a[k], b[k])

\* The epoch carries a band label
HasLabel(e) == "band" \in DOMAIN e.calibration_data

\* The positions of the epochs of data whose band label is name, ignoring
\* letter case
EpochsOfBand(data, name) ==
    {i \in 1..Len(data) :
        /\ HasLabel(data[i])
        /\ SameIgnoringCase(data[i].calibration_data.band, name)}

FilterReturned == fn = FnFilter /\ pc = "returned"

TextAll == <<"a", "l", "l">>

-----------------------------------------------------------------------------
(* C12 *)

\* C12: filter_photometry_data with a band name returns exactly the epochs
\* whose band label equals the name ignoring letter case, in their input
\* order, each unchanged.
C12_FilterByBand ==
    (FilterReturned /\ args.filter.given) =>
        /\ {ret[k].id : k \in 1..Len(ret)}
              = EpochsOfBand(photometry_data, args.filter.name)
        /\ \A k \in 1..Len(ret) : ret[k] = photometry_data[ret[k].id]
        /\ \A k \in 1..Len(ret) : \A j \in 1..Len(ret) :
              k < j => ret[k].id < ret[j].id

\* Epochs labelled R, V, R filtered on "r": the two R epochs are returned.
C12_Witness ==
    /\ FilterReturned
    /\ args.filter = Filter(<<"r">>)
    /\ Len(photometry_data) = 3
    /\ \A i \in 1..3 : HasLabel(photometry_data[i])
    /\ photometry_data[1].calibration_data.band = <<"R">>
    /\ photometry_data[2].calibration_data.band = <<"V">>
    /\ photometry_data[3].calibration_data.band = <<"R">>
    /\ ret = <<photometry_data[1], photometry_data[3]>>

-----------------------------------------------------------------------------
(* C13 *)

\* C13 as stated: with no band or with the band "all" the filter returns
\* every input epoch, whatever its label.
C13_NoneOrAllIsIdentity ==
    (FilterReturned /\ (~args.filter.given \/ args.filter.name = TextAll)) =>
        ret = photometry_data

-----------------------------------------------------------------------------
(* Vocabulary of the properties of main *)

MainRuns == fn = FnMain

\* main has gone past its filter step
PastFilter == MainRuns /\ pc \in {"filtered", "processed", "saved", "returned"}

\* A band is requested and no stored epoch carries it
ZeroEpochsOfBand ==
    /\ Truthy(args.filter)
    /\ EpochsOfBand(pkl, args.filter.name) = {}

\* The band labels present in the stored data, with 'Unknown' standing for
\* the epochs that carry none
LabelsPresent ==
    {pkl[i].calibration_data.band : i \in {j \in 1..Len(pkl) : HasLabel(pkl[j])}}
    \cup (IF \E i \in 1..Len(pkl) : ~HasLabel(pkl[i]) THEN {Unknown} ELSE {})

Reported(msg) == \E k \in 1..Len(stdout) : stdout[k].msg = msg

\* Nothing has been loaded, matched or written
NothingDone ==
    /\ photometry_data = <<>>
    /\ ret = Started
    /\ results = DataFrame(<<>>, <<>>)
    /\ files.csv = NoFile
    /\ ~files.plot

\* The lines of objects.dat whose role is name, ignoring letter case
LinesOfRole(name) ==
    {k \in 1..Len(objects_dat) : SameIgnoringCase(objects_dat[k].Type, name)}

LacksRole ==
    \/ LinesOfRole(KeyTarget) = {}
    \/ LinesOfRole(KeyComp1) = {}
    \/ LinesOfRole(KeyComp2) = {}

-----------------------------------------------------------------------------
(* C14 *)

\* C14: when the requested band matches no epoch, main ends with the "no
\* data for filter" report, which carries the band labels present in the
\* data; the reducer is not run and no table is written.  The report is
\* printed in no other run, and a run that filtered successfully and got no
\* record ends with the other report, "no valid measurements", and with a
\* table written.
C14_EmptyFilterReported ==
    PastFilter =>
        /\ ZeroEpochsOfBand =>
              /\ pc = "returned"
              /\ stdout = <<Report(MsgNoDataForFilter, LabelsPresent)>>
              /\ ret = Started
              /\ results = DataFrame(<<>>, <<>>)
              /\ files.csv = NoFile
              /\ ~files.plot
        /\ ~ZeroEpochsOfBand =>
              /\ ~Reported(MsgNoDataForFilter)
              /\ (pc = "returned" /\ Len(ret.results) = 0) =>
                    /\ stdout = <<Report(MsgNoMeasurements, {})>>
                    /\ files.csv.exists

\* A run on two epochs of different labels, asked for a band that none of
\* them carries, that has ended with the report.
C14_Witness ==
    /\ MainRuns
    /\ pc = "returned"
    /\ ZeroEpochsOfBand
    /\ Len(pkl) = 2
    /\ Cardinality(LabelsPresent) = 2
    /\ Reported(MsgNoDataForFilter)

-----------------------------------------------------------------------------
(* C15 *)

\* C15: when objects.dat lacks a line for target, comp1 or comp2 (names
\* compared ignoring letter case), the run ends in the ValueError of
\* read_objects_data with a failure status, with no epoch loaded, filtered
\* or matched and no table or plot written; a file that has the three roles
\* is read without error.
C15_MissingRoleIsFatal ==
    (MainRuns /\ pc # "start") =>
        /\ LacksRole =>
              /\ pc = "raised"
              /\ exit_code = 1
              /\ Reported(MsgMissingObjects)
              /\ NothingDone
        /\ ~LacksRole => pc # "raised"

\* A run on a file that has Target and Comp1 but no Comp2, with epochs
\* stored, that has ended in the error.
C15_Witness ==
    /\ MainRuns
    /\ pc = "raised"
    /\ LinesOfRole(KeyTarget) # {}
    /\ LinesOfRole(KeyComp1) # {}
    /\ LinesOfRole(KeyComp2) = {}
    /\ Len(pkl) > 0

-----------------------------------------------------------------------------
(* C16 *)

\* C16 as stated: a file objects.dat with more than one Target line is
\* rejected: the run ends in an error and nothing is processed.
C16_TwoTargetsRejected ==
    (MainRuns /\ pc # "start" /\ Cardinality(LinesOfRole(KeyTarget)) > 1) =>
        /\ pc = "raised"
        /\ NothingDone

-----------------------------------------------------------------------------
(* C20 *)

\* C20 as stated: the table written by a run carries the eight columns MJD,
\* TARGET_RA, TARGET_DEC, TARGET_SEP, TARGET_MAG, TARGET_MAGERR, COMP1_MAG,
\* COMP2_MAG in its header row, also when it has no record.
C20_TableHasColumns ==
    (MainRuns /\ files.csv.exists) =>
        {files.csv.columns[k] : k \in 1..Len(files.csv.columns)}
            = {"MJD", "TARGET_RA", "TARGET_DEC", "TARGET_SEP", "TARGET_MAG",
               "TARGET_MAGERR", "COMP1_MAG", "COMP2_MAG"}

-----------------------------------------------------------------------------
(* compare_photometry.py *)

\* 180 seconds
TIME_THRESHOLD == 180

\* int() of a time in days: the whole days, rounded toward zero
IntDays(t) == IF t >= 0 THEN (t \div Day) * Day ELSE -(((-t) \div Day) * Day)

Min(a, b) == IF b < a THEN b ELSE a

\* WithinThreshold with a fault: the bound itself is refused.
WithinThreshold_Strict(min_diff) == min_diff < TIME_THRESHOLD

\* "if min_diff <= TIME_THRESHOLD"
WithinThreshold(min_diff) == min_diff <= TIME_THRESHOLD

\* PairOf with a fault: a pair is made with every row of the second series
\* within the threshold, not with the nearest alone.
PairOf_EveryPartner(our_row, oth) ==
    LET within == SelectSeq(oth, LAMBDA o :
                      WithinThreshold(Abs(o.MJD - our_row.MJD)))
    IN  [k \in 1..Len(within) |->
            [MJD_our       |-> our_row.MJD,
             TARGET_MAG    |-> our_row.TARGET_MAG,
             TARGET_MAGERR |-> our_row.TARGET_MAGERR,
             COMP1_MAG     |-> our_row.COMP1_MAG,
             COMP2_MAG     |-> our_row.COMP2_MAG,
             MJD_other     |-> within[k].MJD,
             rel_flux_T1   |-> within[k].rel_flux_T1,
             rel_flux_C2   |-> within[k].rel_flux_C2,
             rel_flux_C3   |-> within[k].rel_flux_C3]]

\* The body of "for _, our_row in results.iterrows()": the pair made of the
\* row and of the closest row of the other series (the first of the closest
\* ones), or nothing when that row is farther than the threshold.
PairOf(our_row, oth) ==
    LET time_diff == [k \in 1..Len(oth) |-> Abs(oth[k].MJD - our_row.MJD)]
        min_diff_idx == ArgMin(time_diff)
        min_diff == time_diff[min_diff_idx]
    IN  IF WithinThreshold(min_diff)
        THEN <<[MJD_our       |-> our_row.MJD,
                TARGET_MAG    |-> our_row.TARGET_MAG,
                TARGET_MAGERR |-> our_row.TARGET_MAGERR,
                COMP1_MAG     |-> our_row.COMP1_MAG,
                COMP2_MAG     |-> our_row.COMP2_MAG,
                MJD_other     |-> oth[min_diff_idx].MJD,
                rel_flux_T1   |-> oth[min_diff_idx].rel_flux_T1,
                rel_flux_C2   |-> oth[min_diff_idx].rel_flux_C2,
                rel_flux_C3   |-> oth[min_diff_idx].rel_flux_C3]>>
        ELSE <<>>

\* matching_pairs after the loop, from row i on
RECURSIVE MatchingPairs(_, _, _)
MatchingPairs(our, oth, i) ==
    IF i > Len(our) THEN <<>>
    ELSE PairOf(our[i], oth) \o MatchingPairs(our, oth, i + 1)

\* NoPairs with a fault: the table of pairs is never found empty.
NoPairs_Never(pairs) == FALSE

\* "if len(merged) == 0"
NoPairs(pairs) == Len(pairs) = 0

MsgNoMatching == "WARNING: No matching time points found within threshold!"

MsgValueError == "ValueError: cannot convert float NaN to integer"

MsgIndexError == "IndexError: single positional indexer is out-of-bounds"

FnCompare == "compare_photometry"

FnPlot == "plot_magnitude_ratios"

\* Lines 6-26: both series are read and sorted by time, the origin of the
\* time axis is computed and the first points are printed.  The minimum of
\* an empty column is NaN: with an empty first series min(nan, x) is nan and
\* int() raises; with an empty second series min(x, nan) is x and the read of
\* the first point of the second series raises.
CompareLoad ==
    /\ fn = FnCompare
    /\ pc = "start"
    /\ LET r == SortValuesMJD(results.rows)
           o == SortValuesMJD(other.rows)
       IN  /\ results' = DataFrame(results.columns, r)
           /\ other' = DataFrame(other.columns, o)
           /\ IF Len(r) = 0
              THEN /\ pc' = "raised"
                   /\ exit_code' = 1
                   /\ stdout' = Append(stdout, Report(MsgValueError, {}))
                   /\ UNCHANGED time_offset
              ELSE IF Len(o) = 0
              THEN /\ time_offset' = IntDays(ColumnMin(r))
                   /\ pc' = "raised"
                   /\ exit_code' = 1
                   /\ stdout' = Append(stdout, Report(MsgIndexError, {}))
              ELSE /\ time_offset' = IntDays(Min(ColumnMin(r), ColumnMin(o)))
                   /\ pc' = "loaded"
                   /\ UNCHANGED <<exit_code, stdout>>
    /\ UNCHANGED <<df, ra, dec, max_distance, photometry_data, positions_df,
                   objects, ret, fn, objects_dat, args, pkl, files, merged,
                   time_hours, webVars, convVars>>

\* Lines 28-60: the pairs are collected; with no pair the warning is printed
\* and the script exits with status 1.
CompareMatch ==
    /\ fn = FnCompare
    /\ pc = "loaded"
    /\ merged' = MatchingPairs(results.rows, other.rows, 1)
    /\ IF NoPairs(merged')
       THEN /\ stdout' = Append(stdout, Report(MsgNoMatching, {TIME_THRESHOLD}))
            /\ exit_code' = 1
            /\ pc' = "exited"
       ELSE /\ pc' = "matched"
            /\ UNCHANGED <<stdout, exit_code>>
    /\ UNCHANGED <<df, ra, dec, max_distance, photometry_data, positions_df,
                   objects, ret, fn, objects_dat, args, pkl, files, results,
                   other, time_offset, time_hours, webVars, convVars>>

\* Lines 62-235: the statistics, the magnitude differences, the elapsed
\* times and the residuals are computed and the plot is written.
CompareReport ==
    /\ fn = FnCompare
    /\ pc = "matched"
    /\ time_hours' =
          [bht |-> [k \in 1..Len(merged) |->
                       ElapsedHours(merged[k].MJD_our, time_offset)],
           aij |-> [k \in 1..Len(merged) |->
                       ElapsedHours(merged[k].MJD_other, time_offset)]]
    /\ files' = [files EXCEPT !.plot = TRUE, !.dirs = @ \cup {"plots"}]
    /\ pc' = "returned"
    /\ exit_code' = 0
    /\ UNCHANGED <<df, ra, dec, max_distance, photometry_data, positions_df,
                   objects, ret, fn, objects_dat, args, pkl, stdout, results,
                   other, merged, time_offset, webVars, convVars>>

\* A call of plot_magnitude_ratios on a table
CallPlot ==
    /\ fn = FnPlot
    /\ pc = "start"
    /\ LET plotted == plot_magnitude_ratios(results)
       IN  /\ results' = plotted.results
           /\ time_offset' = plotted.time_offset
    /\ files' = [files EXCEPT !.plot = TRUE]
    /\ pc' = "returned"
    /\ UNCHANGED <<df, ra, dec, max_distance, photometry_data, positions_df,
                   objects, ret, fn, objects_dat, args, pkl, stdout,
                   exit_code, other, merged, time_hours, webVars, convVars>>

-----------------------------------------------------------------------------
(* The time series *)

\* A quarter of a day into day 0
Quarter == 6 * Hour

\* The times of the first series: two points 200 s apart and one a day
\* later
OurTimes == {Quarter, Quarter + 200, Day + Quarter}

\* The times of the second series: 180 s before the first point of the
\* first series, 100 s after it, 100 s and 200 s after its second point
OtherTimes == {Quarter - 180, Quarter + 100, Quarter + 300, Quarter + 400}

ResultRows ==
    {[MJD |-> t, TARGET_RA |-> 1, TARGET_DEC |-> 0, TARGET_SEP |-> 1,
      TARGET_MAG |-> Fin(12000), TARGET_MAGERR |-> Fin(10),
      COMP1_MAG |-> Fin(13000), COMP2_MAG |-> Fin(13500)] : t \in OurTimes}

OtherColumns == <<"MJD", "rel_flux_T1", "rel_flux_C2", "rel_flux_C3">>

\* The second series with its MJD column (line 16)
OtherRows ==
    {[MJD |-> t, rel_flux_T1 |-> 1000, rel_flux_C2 |-> 900,
      rel_flux_C3 |-> 800] : t \in OtherTimes}

ResultFrames ==
    {DataFrame(StaticColumns, rows) :
        rows \in UNION {[1..n -> ResultRows] : n \in 0..MaxPoints}}

OtherFrames ==
    {DataFrame(OtherColumns, rows) :
        rows \in UNION {[1..n -> OtherRows] : n \in 0..MaxPoints}}

\* The script is run on two tables; plot_magnitude_ratios is called, as by
\* main, on a table that has a record.
InitSeries ==
    /\ fn \in {FnCompare, FnPlot}
    /\ pc = "start"
    /\ results \in ResultFrames
    /\ fn = FnPlot => Len(results.rows) > 0
    /\ other \in (IF fn = FnCompare THEN OtherFrames
                  ELSE {DataFrame(<<>>, <<>>)})
    /\ merged = <<>>
    /\ time_offset = 0
    /\ time_hours = <<>>
    /\ NoRun
    /\ NoWeb
    /\ NoConversion
    /\ photometry_data = <<>>
    /\ positions_df = <<>>
    /\ objects = Objects
    /\ ret = Started
    /\ df = <<>>
    /\ ra = 0
    /\ dec = 0
    /\ max_distance = DefaultMaxDistance

NextSeries == CompareLoad \/ CompareMatch \/ CompareReport \/ CallPlot

SpecSeries == InitSeries /\ [][NextSeries]_vars

-----------------------------------------------------------------------------
(* Vocabulary of the properties of the time series *)

Comparing == fn = FnCompare

\* The script has gone through its matching loop
Matched == Comparing /\ pc \in {"matched", "exited", "returned"}

TimesOf(rows) == {rows[k].MJD : k \in 1..Len(rows)}

\* Some point of the second series lies within 180 s of time t
HasPartner(t) == \E u \in TimesOf(other.rows) : Abs(u - t) <= 180

\* floor() of a time in days: the whole days, rounded down
FloorDays(t) == (t \div Day) * Day

\* The smallest element of a set of times that is not empty
Earliest(times) == CHOOSE t \in times : \A u \in times : t <= u

-----------------------------------------------------------------------------
(* C17 *)

\* C17: each pair joins a point of the first series with a point of the
\* second series that no other point of the second series is closer to in
\* time, at most 180 s away; the pairs are, in time order, those of the
\* points of the first series that have a point of the second series
\* within 180 s, and the other points are dropped.
C17_NearestWithinWindow ==
    Matched =>
        /\ \A k \in 1..Len(merged) :
              /\ merged[k].MJD_other \in TimesOf(other.rows)
              /\ Abs(merged[k].MJD_our - merged[k].MJD_other) <= 180
              /\ \A u \in TimesOf(other.rows) :
                    Abs(merged[k].MJD_our - merged[k].MJD_other)
                        <= Abs(merged[k].MJD_our - u)
        /\ [k \in 1..Len(merged) |-> merged[k].MJD_our]
              = SelectSeq([i \in 1..Len(results.rows) |-> results.rows[i].MJD],
                          HasPartner)

\* A comparison that kept a pair exactly 180 s apart and dropped a point
\* that had no partner within the window.
C17_Witness ==
    /\ Comparing
    /\ pc = "returned"
    /\ \E k \in 1..Len(merged) :
          Abs(merged[k].MJD_our - merged[k].MJD_other) = 180
    /\ \E i \in 1..Len(results.rows) : ~HasPartner(results.rows[i].MJD)

-----------------------------------------------------------------------------
(* C18 *)

\* C18: when no point of the first series has a point of the second series
\* within the window, the script prints the warning and exits with status 1
\* with no elapsed time computed and no plot written; a run that ends with
\* status 0, and every plot written, has at least one pair.
C18_NoOverlapExits ==
    Comparing =>
        /\ (Matched /\ \A t \in TimesOf(results.rows) : ~HasPartner(t)) =>
              /\ pc = "exited"
              /\ exit_code = 1
              /\ Reported(MsgNoMatching)
              /\ merged = <<>>
              /\ time_hours = <<>>
              /\ ~files.plot
        /\ exit_code = 0 => Len(merged) > 0
        /\ files.plot => Len(merged) > 0
        /\ pc \in {"matched", "returned"} => Len(merged) > 0

\* A comparison of two series of two points each, none of the first within
\* 180 s of one of the second and two of them 200 s apart, that has exited.
C18_Witness ==
    /\ Comparing
    /\ pc = "exited"
    /\ Cardinality(TimesOf(results.rows)) = 2
    /\ Cardinality(TimesOf(other.rows)) = 2
    /\ \E t \in TimesOf(results.rows), u \in TimesOf(other.rows) :
          Abs(t - u) = 200

-----------------------------------------------------------------------------
(* C19 *)

\* C19 as stated: the origin of the time axis is the floor of the smallest
\* MJD of all the series, a whole number of days, and the elapsed times are
\* counted from it, so that the earliest point lies in [0, 24) hours; in the
\* light curve of one table and in the comparison of two.
C19_OffsetIsFloorOfMin ==
    /\ (fn = FnPlot /\ pc = "returned") =>
          /\ time_offset = FloorDays(Earliest(TimesOf(results.rows)))
          /\ \A k \in 1..Len(results.rows) :
                results.rows[k].TIME_HOURS = results.rows[k].MJD - time_offset
          /\ \E k \in 1..Len(results.rows) :
                /\ results.rows[k].TIME_HOURS >= 0
                /\ results.rows[k].TIME_HOURS < 24 * Hour
    /\ (Comparing /\ pc = "returned") =>
          /\ time_offset = FloorDays(Earliest(TimesOf(results.rows)
                                              \cup TimesOf(other.rows)))
          /\ \A k \in 1..Len(merged) :
                /\ time_hours.bht[k] = merged[k].MJD_our - time_offset
                /\ time_hours.aij[k] = merged[k].MJD_other - time_offset

-----------------------------------------------------------------------------
(* C23 *)

\* C23: in static mode, an epoch in which the three roles are matched and
\* the four magnitudes are finite gives a record that carries the epoch's
\* MJD, the coordinates of the target's detection and its separation from
\* the reference position, the magnitude and magnitude error of that
\* detection and the magnitudes of the detections of comp1 and comp2: for
\* the field with magnitudes 12.0, 13.0 and 13.5, these three values.
C23_RecordOfResolvedEpoch ==
    (Ran /\ Static) =>
        \A i \in 1..Len(ret.log) :
            Resolvable(i) =>
                /\ Appended(i)
                /\ LET d   == photometry_data[i].df
                       rec == RecordOf(i)
                   IN  /\ rec.MJD = photometry_data[i].mjd
                       /\ \E t \in TargetRows(i) :
                             /\ rec.TARGET_RA = d[t].ALPHA_J2000
                             /\ rec.TARGET_DEC = d[t].DELTA_J2000
                             /\ rec.TARGET_SEP =
                                   SepOf(d, t, objects.target.ra,
                                         objects.target.dec)
                             /\ rec.TARGET_MAG = d[t].MAG_AUTO
                             /\ rec.TARGET_MAGERR = d[t].MAGERR_AUTO
                       /\ \E c \in Comp1Rows(i) : rec.COMP1_MAG = d[c].MAG_AUTO
                       /\ \E c \in Comp2Rows(i) : rec.COMP2_MAG = d[c].MAG_AUTO
                       /\ d = Field =>
                             /\ rec.TARGET_MAG = Fin(12000)
                             /\ rec.COMP1_MAG = Fin(13000)
                             /\ rec.COMP2_MAG = Fin(13500)

\* A static run over two epochs of the field, both resolved, whose second
\* record is that of the second epoch: the target's detection 1" from the
\* reference position, with magnitudes 12.0, 13.0 and 13.5.
C23_Witness ==
    /\ Reduced
    /\ Static
    /\ Len(photometry_data) = 2
    /\ \A i \in 1..2 : photometry_data[i].df = Field /\ Resolvable(i)
    /\ Len(ret.results) = 2
    /\ ret.results[2] = [MJD           |-> photometry_data[2].mjd,
                         TARGET_RA     |-> 1,
                         TARGET_DEC    |-> 0,
                         TARGET_SEP    |-> 1,
                         TARGET_MAG    |-> Fin(12000),
                         TARGET_MAGERR |-> Fin(10),
                         COMP1_MAG     |-> Fin(13000),
                         COMP2_MAG     |-> Fin(13500)]

-----------------------------------------------------------------------------
(* C29 *)

\* C29: the pairing goes from the first series to the second only.  No
\* time of the first series is in more pairs than there are points of that
\* time, so the pairs are no more than the points of the first series; and
\* a point of the second series that is not the nearest neighbour of any
\* point of the first series is in no pair.
C29_OneDirectional ==
    Matched =>
        /\ Len(merged) <= Len(results.rows)
        /\ \A t \in TimesOf(results.rows) :
              Cardinality({k \in 1..Len(merged) : merged[k].MJD_our = t})
                 <= Cardinality({i \in 1..Len(results.rows) :
                                    results.rows[i].MJD = t})
        /\ \A u \in TimesOf(other.rows) :
              (\A t \in TimesOf(results.rows) :
                  \E v \in TimesOf(other.rows) : Abs(v - t) < Abs(u - t))
              => \A k \in 1..Len(merged) : merged[k].MJD_other # u

\* A comparison in which two points of the first series are paired with
\* the same point of the second series, while another point of the second
\* series, within the window of one of them, is in no pair.
C29_Witness ==
    /\ Comparing
    /\ pc = "returned"
    /\ Len(merged) = 2
    /\ merged[1].MJD_our # merged[2].MJD_our
    /\ merged[1].MJD_other = merged[2].MJD_other
    /\ \E u \in TimesOf(other.rows) :
          /\ \E t \in TimesOf(results.rows) : Abs(u - t) <= 180
          /\ \A k \in 1..Len(merged) : merged[k].MJD_other # u

-----------------------------------------------------------------------------
(* convert_to_diffmag.py *)

\* The measurement table the converter reads holds its magnitudes as the
\* decimal numbers of the file: here a magnitude of the converter is a whole
\* number of tenths of a micromagnitude, so that the text written with six
\* decimals drops its last digit.
MaxRecords == 2

\* The tenths of a micromagnitude in the last decimal that "{:.6f}" keeps
Micromag == 10

\* The whole days of the offset 2400000.5 between JD and MJD
JDOffsetDays == 2400000

\* f"{dmag:.6f}", f"{err:.6f}": the number with six decimals, the nearest
\* one (the even one of two equally near).
Format6(x) ==
    LET q == x \div Micromag
        r == x % Micromag
    IN  IF 2 * r < Micromag THEN q * Micromag
        ELSE IF 2 * r > Micromag THEN (q + 1) * Micromag
        ELSE IF q % 2 = 0 THEN q * Micromag ELSE (q + 1) * Micromag

\* df['MJD'] + 2400000.5.  A Julian date is held as its whole days and the
\* seconds of its day: the half day is added to the seconds of the MJD and
\* carried into the days.
JD_UTC(mjd) ==
    LET t == mjd + Day \div 2
    IN  [days |-> JDOffsetDays + t \div Day, secs |-> t % Day]

\* f"{jd:.10f}": ten decimals of a day are 8.64 microseconds, and a double
\* near 2.4 million days resolves 40 microseconds; a whole second is kept.
Format10(jd) == jd

\* DiffMag with a fault: the second comparison star is subtracted.
DiffMag_Comp2(row) == row.TARGET_MAG - row.COMP2_MAG

\* diff_mag = df['TARGET_MAG'] - df['COMP1_MAG'], of one row
DiffMag(row) == row.TARGET_MAG - row.COMP1_MAG

\* error_diff_mag = df['TARGET_MAGERR'], of one row
ErrorDiffMag(row) == row.TARGET_MAGERR

DiffmagColumns == <<"#JD_UTC", "diff_mag", "error_diff_mag">>

\* The line f.write(f"{jd:.10f}\t{dmag:.6f}\t{err:.6f}\n") of row i
DiffmagLine(jd, dmag, err) ==
    [JD_UTC         |-> Format10(jd),
     diff_mag       |-> Format6(dmag),
     error_diff_mag |-> Format6(err)]

MsgEmptyData == "EmptyDataError: No columns to parse from file"

FnDiffmag == "convert_to_differential_magnitude"

\* Lines 20-34: the input file is read; pd.read_csv of a file without a
\* header line raises.
ConvertRead ==
    /\ fn = FnDiffmag
    /\ pc = "start"
    /\ files' = [files EXCEPT !.dirs = @ \cup {"output"}]
    /\ IF Len(files.csv.columns) = 0
       THEN /\ pc' = "raised"
            /\ exit_code' = 1
            /\ stdout' = Append(stdout, Report(MsgEmptyData, {}))
            /\ UNCHANGED results
       ELSE /\ pc' = "read"
            /\ results' = DataFrame(files.csv.columns, files.csv.rows)
            /\ UNCHANGED <<exit_code, stdout>>
    /\ UNCHANGED <<df, ra, dec, max_distance, photometry_data, positions_df,
                   objects, ret, fn, objects_dat, args, pkl, other, merged,
                   time_offset, time_hours, webVars, convVars>>

\* Lines 36-52: the column JD_UTC is added to the frame and the two series
\* are computed.
ConvertCompute ==
    /\ fn = FnDiffmag
    /\ pc = "read"
    /\ results' =
          DataFrame(Append(results.columns, "JD_UTC"),
                    [k \in 1..Len(results.rows) |->
                        [c \in DOMAIN results.rows[k] \cup {"JD_UTC"} |->
                            IF c = "JD_UTC" THEN JD_UTC(results.rows[k].MJD)
                            ELSE results.rows[k][c]]])
    /\ diffmag_ret' =
          [diff_mag       |-> [k \in 1..Len(results.rows) |->
                                  DiffMag(results.rows[k])],
           error_diff_mag |-> [k \in 1..Len(results.rows) |->
                                  ErrorDiffMag(results.rows[k])]]
    /\ pc' = "computed"
    /\ UNCHANGED <<df, ra, dec, max_distance, photometry_data, positions_df,
                   objects, ret, fn, runVars, other, merged, time_offset,
                   time_hours, webVars, diffmag_file>>

\* Lines 54-83: the header and one line per row of the frame are written,
\* and the frame and the two series are returned.
ConvertWrite ==
    /\ fn = FnDiffmag
    /\ pc = "computed"
    /\ diffmag_file' =
          [exists  |-> TRUE,
           columns |-> DiffmagColumns,
           rows    |-> [i \in 1..Len(results.rows) |->
                           DiffmagLine(results.rows[i].JD_UTC,
                                       diffmag_ret.diff_mag[i],
                                       diffmag_ret.error_diff_mag[i])]]
    /\ pc' = "returned"
    /\ exit_code' = 0
    /\ UNCHANGED <<df, ra, dec, max_distance, photometry_data, positions_df,
                   objects, ret, fn, objects_dat, args, pkl, stdout, files,
                   seriesVars, webVars, diffmag_ret>>

-----------------------------------------------------------------------------
(* The inputs of the converter *)

\* The rows of the measurement table: an epoch in the morning and one in
\* the afternoon of the next day, magnitudes with and without a seventh
\* decimal.
MeasuredRows ==
    {[MJD           |-> t,
      TARGET_RA     |-> 1,
      TARGET_DEC    |-> 0,
      TARGET_SEP    |-> 1,
      TARGET_MAG    |-> m,
      TARGET_MAGERR |-> e,
      COMP1_MAG     |-> c,
      COMP2_MAG     |-> 135000000] :
        t \in {6 * Hour, Day + 15 * Hour},
        m \in {120000000, 120000003},
        e \in {100000, 100004},
        c \in {130000000, 130000007}}

\* The files photometry_results.csv: up to MaxRecords rows under the header
\* of the table, or the file main writes of a table without a record.
MeasuredFiles ==
    {to_csv(DataFrame(StaticColumns, rows)) :
        rows \in UNION {[1..n -> MeasuredRows] : n \in 0..MaxRecords}}
    \cup {to_csv(FrameOfRecords(<<>>))}

InitDiffmag ==
    /\ fn = FnDiffmag
    /\ pc = "start"
    /\ objects_dat = <<>>
    /\ args = [filter |-> NoFilter]
    /\ pkl = <<>>
    /\ stdout = <<>>
    /\ files \in {[NoFiles EXCEPT !.csv = f] : f \in MeasuredFiles}
    /\ exit_code = -1
    /\ NoSeries
    /\ NoWeb
    /\ NoConversion
    /\ photometry_data = <<>>
    /\ positions_df = <<>>
    /\ objects = Objects
    /\ ret = Started
    /\ df = <<>>
    /\ ra = 0
    /\ dec = 0
    /\ max_distance = DefaultMaxDistance

NextDiffmag == ConvertRead \/ ConvertCompute \/ ConvertWrite

SpecDiffmag == InitDiffmag /\ [][NextDiffmag]_vars

-----------------------------------------------------------------------------
(* C24 *)

Converting == fn = FnDiffmag

\* x is y written with six decimals: a whole number of micromagnitudes no
\* farther than half a micromagnitude from y
SixDecimalsOf(x, y) == x % 10 = 0 /\ 2 * Abs(x - y) <= 10

\* jd is the Julian date 2400000.5 days after mjd
HalfDayAfter(jd, mjd) ==
    /\ jd.secs \in 0..(Day - 1)
    /\ (jd.days - 2400000) * Day + jd.secs = mjd + 12 * Hour

\* C24: the file of differential magnitudes has one line per record of the
\* measurement table, in the order of the table, and line i holds the
\* Julian date MJD + 2400000.5 of record i, its TARGET_MAG - COMP1_MAG and
\* its TARGET_MAGERR, nothing of the comparison star's error, each as
\* written with six decimals; the series returned hold these differences
\* and errors as computed.
C24_DiffmagRows ==
    (Converting /\ pc = "returned") =>
        LET table == files.csv.rows
        IN  /\ Len(diffmag_file.rows) = Len(table)
            /\ Len(diffmag_ret.diff_mag) = Len(table)
            /\ Len(diffmag_ret.error_diff_mag) = Len(table)
            /\ \A i \in 1..Len(table) :
                  /\ HalfDayAfter(diffmag_file.rows[i].JD_UTC, table[i].MJD)
                  /\ diffmag_ret.diff_mag[i]
                        = table[i].TARGET_MAG - table[i].COMP1_MAG
                  /\ diffmag_ret.error_diff_mag[i] = table[i].TARGET_MAGERR
                  /\ SixDecimalsOf(diffmag_file.rows[i].diff_mag,
                                   table[i].TARGET_MAG - table[i].COMP1_MAG)
                  /\ SixDecimalsOf(diffmag_file.rows[i].error_diff_mag,
                                   table[i].TARGET_MAGERR)

\* A conversion of two records that are not in time order: the first line
\* is that of the later record, its Julian date two whole days after
\* 2400000, and its difference is written without its seventh decimal.
C24_Witness ==
    /\ Converting
    /\ pc = "returned"
    /\ Len(files.csv.rows) = 2
    /\ files.csv.rows[1].MJD > files.csv.rows[2].MJD
    /\ diffmag_file.rows[1].JD_UTC = [days |-> 2400002, secs |-> 3 * Hour]
    /\ diffmag_file.rows[2].JD_UTC = [days |-> 2400000, secs |-> 18 * Hour]
    /\ diffmag_ret.diff_mag[1] = -10000007
    /\ diffmag_file.rows[1].diff_mag = -10000010
    /\ diffmag_file.rows[1].error_diff_mag = 100000
    /\ files.csv.rows[1].TARGET_MAGERR = 100004

-----------------------------------------------------------------------------
(* get_data_bhtom.py *)

\* process_all_data: the products that carry an MJD and whose photometry
\* file is not empty, by data id.
process_all_data(data_products) ==
    SelectSeq(data_products, LAMBDA row : row.has_mjd /\ Len(row.df) > 0)

\* NoFirstEpoch with a fault: the example is printed of an empty dict too.
NoFirstEpoch_Never(res) == FALSE

\* "first_id = next(iter(results))" raises StopIteration on an empty dict
NoFirstEpoch(res) == Len(res) = 0

MsgStopIteration == "StopIteration"

\* main of get_data_bhtom.py on what the archive holds of the target: the
\* results are pickled, then the first epoch is printed.  The value is what
\* subprocess.run sees of the process and the file it has written.
get_data_bhtom(data_products) ==
    LET res     == process_all_data(data_products)
        stored  == [i \in 1..Len(res) |->
                       [id   |-> res[i].id,
                        mjd  |-> res[i].mjd,
                        df   |-> res[i].df,
                        calibration_data |-> res[i].calibration_data]]
    IN  [returncode |-> IF NoFirstEpoch(res) THEN 1 ELSE 0,
         stderr     |-> IF NoFirstEpoch(res) THEN MsgStopIteration ELSE "",
         epochs     |-> Len(res),
         pkl        |-> stored]

-----------------------------------------------------------------------------
(* process_photometry.py as app.py runs it *)

\* A field of a JSON body or of a line of text: a number or a text
Num(n) == [t |-> "num", n |-> n, s |-> <<>>]

Str(s) == [t |-> "str", n |-> 0, s |-> s]

MsgNotAFloat == "ValueError: could not convert string to float"

\* "float(row['RA'])", "float(row['DEC'])" of the lines of objects.dat: a
\* number is read back as written, a text that is no number raises.
FloatLines(lines) ==
    [raised |-> \E k \in 1..Len(lines) :
                    lines[k].RA.t # "num" \/ lines[k].DEC.t # "num",
     lines  |-> [k \in 1..Len(lines) |->
                    Line(lines[k].Type, lines[k].RA.n, lines[k].DEC.n)]]

MsgDone == "First few measurements"

\* What subprocess.run sees of a run of main and the files the run leaves
Ended(returncode, report, fs) ==
    [returncode |-> returncode, report |-> report, files |-> fs]

\* Lines 390-421 of main: the table is written; without a record main
\* returns, else the light curve is plotted.
MainSaveAndPlot(table, made) ==
    IF Len(table.rows) = 0
    THEN Ended(0, MsgNoMeasurements, [made EXCEPT !.csv = to_csv(table)])
    ELSE Ended(0, MsgDone,
               [made EXCEPT !.csv = to_csv(table), !.plot = TRUE])

\* Lines 380-388 of main: the static reducer on the definitions read
MainReduce(objs, data, made) ==
    MainSaveAndPlot(
        FrameOfRecords(
            process_static_object_photometry(
                data,
                [ra |-> objs[KeyTarget][2], dec |-> objs[KeyTarget][3]],
                [comp1 |-> [ra  |-> objs[KeyComp1].ra,
                            dec |-> objs[KeyComp1].dec],
                 comp2 |-> [ra  |-> objs[KeyComp2].ra,
                            dec |-> objs[KeyComp2].dec]]).results),
        made)

\* Lines 360-378 of main: the filter, and the return when nothing is left
MainFiltered(objs, filter, data, made) ==
    IF Truthy(filter) /\ NothingLeft(data)
    THEN Ended(0, MsgNoDataForFilter, made)
    ELSE MainReduce(objs, data, made)

\* Lines 342-358 of main: the ValueError of read_objects_data ends the run
\* with status 1.
MainObjects(r, filter, stored, made) ==
    IF r.raised
    THEN Ended(1, MsgMissingObjects, made)
    ELSE MainFiltered(r.objects, filter,
                      IF Truthy(filter)
                      THEN filter_photometry_data(stored, filter)
                      ELSE stored,
                      made)

MainLines(read, filter, stored, made) ==
    IF read.raised
    THEN Ended(1, MsgNotAFloat, made)
    ELSE MainObjects(read_objects_data(read.lines), filter, stored, made)

\* main of process_photometry.py run to its end on the files it finds: the
\* lines of objects.dat, the --filter argument, the stored epochs and the
\* files there are.
process_photometry(lines, filter, stored, fs) ==
    MainLines(FloatLines(lines), filter, stored,
              [fs EXCEPT !.dirs = @ \cup {"output", "plots"}])

-----------------------------------------------------------------------------
(* app.py *)

\* The job ids: the uuid4 drawn for the first and for the second POST
JobIds == {1, 2}

\* Falsy with a fault: no value is taken for a missing one.
Falsy_Never(v) == FALSE

\* "not data[field]": zero and the empty text
Falsy(v) == IF v.t = "num" THEN v.n = 0 ELSE v.s = <<>>

required_fields ==
    <<"target_name", "mjd_min", "mjd_max", "target_ra", "target_dec",
      "comp1_ra", "comp1_dec", "comp2_ra", "comp2_dec">>

\* "for field in required_fields: if field not in data or not data[field]":
\* the position of the first field refused, 0 when none is.
RECURSIVE FirstMissing(_, _)
FirstMissing(data, i) ==
    IF i > Len(required_fields) THEN 0
    ELSE IF required_fields[i] \notin DOMAIN data
            \/ Falsy(data[required_fields[i]])
         THEN i
         ELSE FirstMissing(data, i + 1)

\* The text of objects.dat made of the body: three lines, the coordinates
\* as given.
ObjectsData(data) ==
    <<Line(TypeTarget, data["target_ra"], data["target_dec"]),
      Line(TypeComp1, data["comp1_ra"], data["comp1_dec"]),
      Line(TypeComp2, data["comp2_ra"], data["comp2_dec"])>>

DefaultFilter == <<"a", "l", "l">>

\* jobs[job_id] = {...} of start_pipeline
NewJob(data) ==
    [status      |-> "queued",
     step        |-> "Initializing",
     target_name |-> data["target_name"].s,
     created_at  |-> "now"]

\* The thread made of run_pipeline and its arguments, not yet running, and
\* the subprocess.run calls it has made.
NewThread(data) ==
    [pc           |-> "started",
     target_name  |-> data["target_name"].s,
     filter_name  |-> DictGet(data, "filter", Str(DefaultFilter)).s,
     objects_data |-> ObjectsData(data),
     calls        |-> <<>>]

\* Lines 103-140: the body is validated; a refused body is answered 400; an
\* accepted one makes the job and starts its thread.
start_pipeline(i) ==
    /\ fn = "app"
    /\ i \in DOMAIN request
    /\ response[i] = 0
    /\ LET data == request[i]
           missing == FirstMissing(data, 1)
       IN  IF missing # 0
           THEN /\ response' = [response EXCEPT ![i] = 400]
                /\ UNCHANGED <<jobs, threads>>
           ELSE /\ jobs' = DictSet(jobs, i, NewJob(data))
                /\ threads' = DictSet(threads, i, NewThread(data))
                /\ response' = [response EXCEPT ![i] = 200]
    /\ UNCHANGED <<fn, pc, df, ra, dec, max_distance, photometry_data,
                   positions_df, objects, ret, runVars, seriesVars, request,
                   convVars>>

CmdDownload == "get_data_bhtom.py"

CmdProcess == "process_photometry.py"

CmdFieldPlot == "plot_dss_field.py"

\* OnEntry with a fault: the step is named and the status is left as it is.
OnEntry_StepOnly(job) == [job EXCEPT !.step = "Saving object coordinates"]

\* Lines 25-26
OnEntry(job) ==
    [job EXCEPT !.status = "running", !.step = "Saving object coordinates"]

\* Failed with a fault: no exit status is taken for a failure.
Failed_Never(result) == FALSE

\* "if result.returncode != 0"
Failed(result) == result.returncode # 0

\* "except subprocess.TimeoutExpired", lines 89-91
OnTimeout(job) ==
    DictSet([job EXCEPT !.status = "error"], "error",
            [prefix |-> "Pipeline timeout (>5 minutes)", stderr |-> ""])

\* Lines 43-44 and 66-67
OnFailure(job, prefix, stderr) ==
    DictSet([job EXCEPT !.status = "error"], "error",
            [prefix |-> prefix, stderr |-> stderr])

TimedOut(cmd) == [cmd |-> cmd, timed_out |-> TRUE, returncode |-> -1]

Exited(cmd, returncode) ==
    [cmd |-> cmd, timed_out |-> FALSE, returncode |-> returncode]

\* The thread of job j starts: lines 24-26.
RunBegin(j) ==
    /\ fn = "app"
    /\ j \in DOMAIN threads
    /\ threads[j].pc = "started"
    /\ jobs' = [jobs EXCEPT ![j] = OnEntry(@)]
    /\ threads' = [threads EXCEPT ![j].pc = "saving"]
    /\ UNCHANGED <<fn, pc, df, ra, dec, max_distance, photometry_data,
                   positions_df, objects, ret, runVars, seriesVars, request,
                   response, convVars>>

\* Lines 28-33: objects.dat is written and the next step is named.
SaveObjects(j) ==
    /\ fn = "app"
    /\ j \in DOMAIN threads
    /\ threads[j].pc = "saving"
    /\ objects_dat' = threads[j].objects_data
    /\ jobs' = [jobs EXCEPT ![j].step = "Downloading data from BHTOM"]
    /\ threads' = [threads EXCEPT ![j].pc = "downloading"]
    /\ UNCHANGED <<fn, pc, df, ra, dec, max_distance, photometry_data,
                   positions_df, objects, ret, args, pkl, stdout, files,
                   exit_code, seriesVars, request, response, convVars>>

\* What the archive holds of a target
TargetKnown == <<"k", "n", "o", "w", "n">>

TargetNoData == <<"n", "o", "d", "a", "t", "a">>

\* The field of the archive: the target of one job, the two comparison
\* stars and the target of the other job, on one meridian.
ArchiveField ==
    <<Row(100, 11, Fin(12000), Fin(10)),
      Row(100, 110, Fin(13000), Fin(10)),
      Row(100, 210, Fin(13500), Fin(10)),
      Row(100, 401, Fin(11000), Fin(10))>>

Archive(target_name) ==
    IF target_name = TargetKnown
    THEN <<[id      |-> 1,
            has_mjd |-> TRUE,
            mjd     |-> EpochMJD(1),
            df      |-> ArchiveField,
            calibration_data |-> [mjd |-> EpochMJD(1), band |-> <<"R">>]]>>
    ELSE <<>>

\* Lines 34-53: the download script is run; it times out, or it fails and
\* the job ends in error, or the number of epochs is noted and the next
\* step is named.  A script killed at the timeout has written nothing.
Download(j) ==
    /\ fn = "app"
    /\ j \in DOMAIN threads
    /\ threads[j].pc = "downloading"
    /\ \/ /\ jobs' = [jobs EXCEPT ![j] = OnTimeout(@)]
          /\ threads' = [threads EXCEPT
                            ![j].pc = "done",
                            ![j].calls = Append(@, TimedOut(CmdDownload))]
          /\ UNCHANGED pkl
       \/ \E result \in {get_data_bhtom(Archive(threads[j].target_name))} :
              /\ pkl' = result.pkl
              /\ IF Failed(result)
                 THEN /\ jobs' = [jobs EXCEPT ![j] =
                                     OnFailure(@, "Download failed: ",
                                               result.stderr)]
                      /\ threads' =
                            [threads EXCEPT
                                ![j].pc = "done",
                                ![j].calls =
                                    Append(@, Exited(CmdDownload,
                                                     result.returncode))]
                 ELSE /\ jobs' = [jobs EXCEPT ![j] =
                                     DictSet([@ EXCEPT !.step =
                                                 "Processing photometry"],
                                             "epochs_downloaded",
                                             result.epochs)]
                      /\ threads' =
                            [threads EXCEPT
                                ![j].pc = "processing",
                                ![j].calls =
                                    Append(@, Exited(CmdDownload,
                                                     result.returncode))]
    /\ UNCHANGED <<fn, pc, df, ra, dec, max_distance, photometry_data,
                   positions_df, objects, ret, objects_dat, args, stdout,
                   files, exit_code, seriesVars, request, response, convVars>>

\* "if filter_name and filter_name != 'all': cmd.extend(['--filter', ...])"
FilterOfCmd(filter_name) ==
    IF filter_name # <<>> /\ filter_name # DefaultFilter
    THEN Filter(filter_name)
    ELSE NoFilter

\* Lines 54-71: the processing script is run on the files of the working
\* directory; it times out, or it fails and the job ends in error, or the
\* next step is named.  The call is noted with what the script has read and
\* printed.
Process(j) ==
    /\ fn = "app"
    /\ j \in DOMAIN threads
    /\ threads[j].pc = "processing"
    /\ \/ /\ jobs' = [jobs EXCEPT ![j] = OnTimeout(@)]
          /\ threads' = [threads EXCEPT
                            ![j].pc = "done",
                            ![j].calls = Append(@, TimedOut(CmdProcess))]
          /\ UNCHANGED files
       \/ \E result \in {process_photometry(
                             objects_dat,
                             FilterOfCmd(threads[j].filter_name),
                             pkl, files)} :
          \E call \in {[cmd         |-> CmdProcess,
                        timed_out   |-> FALSE,
                        returncode  |-> result.returncode,
                        report      |-> result.report,
                        objects_dat |-> objects_dat,
                        pkl         |-> pkl,
                        csv         |-> result.files.csv]} :
              /\ files' = result.files
              /\ IF Failed(result)
                 THEN /\ jobs' = [jobs EXCEPT ![j] =
                                     OnFailure(@, "Processing failed: ",
                                               result.report)]
                      /\ threads' = [threads EXCEPT
                                        ![j].pc = "done",
                                        ![j].calls = Append(@, call)]
                 ELSE /\ jobs' = [jobs EXCEPT ![j].step =
                                     "Generating DSS field plot"]
                      /\ threads' = [threads EXCEPT
                                        ![j].pc = "plotting",
                                        ![j].calls = Append(@, call)]
    /\ UNCHANGED <<fn, pc, df, ra, dec, max_distance, photometry_data,
                   positions_df, objects, ret, objects_dat, args, pkl, stdout,
                   exit_code, seriesVars, request, response, convVars>>

JobFiles ==
    [results         |-> "output/photometry_results.csv",
     plot_lightcurve |-> "plots/magnitude_ratios.png",
     plot_field      |-> "plots/dss_field.png"]

\* Lines 72-87: the finder chart script is run, with any exit status (it
\* needs the sky survey's server); unless it times out, the files are
\* recorded and the job is completed.
FieldPlot(j) ==
    /\ fn = "app"
    /\ j \in DOMAIN threads
    /\ threads[j].pc = "plotting"
    /\ \/ /\ jobs' = [jobs EXCEPT ![j] = OnTimeout(@)]
          /\ threads' = [threads EXCEPT
                            ![j].pc = "done",
                            ![j].calls = Append(@, TimedOut(CmdFieldPlot))]
       \/ \E returncode \in {0, 1} :
             /\ jobs' = [jobs EXCEPT ![j] =
                            [DictSet(@, "files", JobFiles) EXCEPT
                                !.status = "completed",
                                !.step = "Pipeline completed successfully"]]
             /\ threads' =
                   [threads EXCEPT
                       ![j].pc = "done",
                       ![j].calls = Append(@, Exited(CmdFieldPlot,
                                                     returncode))]
    /\ UNCHANGED <<fn, pc, df, ra, dec, max_distance, photometry_data,
                   positions_df, objects, ret, runVars, seriesVars, request,
                   response, convVars>>

-----------------------------------------------------------------------------
(* The requests posted to the application *)

\* A body with the nine required fields: the target of the given name at
\* the given declination, the two comparison stars of the archive's field.
Body(target_name, target_dec) ==
    [f \in {required_fields[k] : k \in 1..Len(required_fields)} |->
        CASE f = "target_name" -> Str(target_name)
          [] f = "mjd_min"     -> Num(1)
          [] f = "mjd_max"     -> Num(2)
          [] f = "target_ra"   -> Num(100)
          [] f = "target_dec"  -> Num(target_dec)
          [] f = "comp1_ra"    -> Num(100)
          [] f = "comp1_dec"   -> Num(110)
          [] f = "comp2_ra"    -> Num(100)
          [] f = "comp2_dec"   -> Num(210)]

BodyA == Body(TargetKnown, 10)

BodyB == Body(TargetKnown, 400)

Without(data, field) == [f \in DOMAIN data \ {field} |-> data[f]]

\* The bodies posted: the two targets; a filter that is the band of the
\* data, another band, 'all'; a target the archive has nothing of; a
\* coordinate that is no number; a coordinate that is zero, one that is the
\* empty text, a field left out.
Bodies ==
    {BodyA, BodyB,
     DictSet(BodyA, "filter", Str(<<"R">>)),
     DictSet(BodyA, "filter", Str(<<"V">>)),
     DictSet(BodyB, "filter", Str(DefaultFilter)),
     Body(TargetNoData, 10),
     DictSet(BodyA, "target_ra", Str(<<"x">>)),
     DictSet(BodyA, "target_dec", Num(0)),
     DictSet(BodyA, "comp1_ra", Str(<<>>)),
     Without(BodyA, "mjd_max")}

InitApp ==
    /\ fn = "app"
    /\ pc = "serving"
    /\ request \in [JobIds -> Bodies]
    /\ response = [i \in JobIds |-> 0]
    /\ jobs = <<>>
    /\ threads = <<>>
    /\ NoRun
    /\ NoSeries
    /\ NoConversion
    /\ photometry_data = <<>>
    /\ positions_df = <<>>
    /\ objects = Objects
    /\ ret = Started
    /\ df = <<>>
    /\ ra = 0
    /\ dec = 0
    /\ max_distance = DefaultMaxDistance

NextApp ==
    \E j \in JobIds :
        \/ start_pipeline(j)
        \/ RunBegin(j)
        \/ SaveObjects(j)
        \/ Download(j)
        \/ Process(j)
        \/ FieldPlot(j)

SpecApp == InitApp /\ [][NextApp]_vars

-----------------------------------------------------------------------------
(* Vocabulary of the properties of the web application *)

Statuses == {"queued", "running", "completed", "error"}

\* Job j exists
IsJob(j) == j \in DOMAIN jobs

\* The subprocess calls job j has made
CallsOf(j) == IF j \in DOMAIN threads THEN threads[j].calls ELSE <<>>

\* Call k of job j is a run of script cmd that ended by itself
Ran_(j, k, cmd) ==
    /\ k \in 1..Len(CallsOf(j))
    /\ CallsOf(j)[k].cmd = cmd
    /\ ~CallsOf(j)[k].timed_out

-----------------------------------------------------------------------------
(* C21 *)

\* C21: a job is created with status 'queued'; its status changes only from
\* 'queued' to 'running' and from 'running' to 'completed' or 'error', so a
\* completed or failed job keeps its status and no job is deleted; and a job
\* is 'running' before its thread has executed anything of the pipeline.
C21_StatusOrder ==
    [][\A j \in JobIds :
          /\ (~IsJob(j) /\ j \in DOMAIN jobs') => jobs'[j].status = "queued"
          /\ IsJob(j) =>
                /\ j \in DOMAIN jobs'
                /\ jobs'[j].status \in Statuses
                /\ \/ jobs'[j].status = jobs[j].status
                   \/ jobs[j].status = "queued" /\ jobs'[j].status = "running"
                   \/ /\ jobs[j].status = "running"
                      /\ jobs'[j].status \in {"completed", "error"}
                /\ jobs'[j].status = "queued" =>
                      /\ threads'[j].pc = "started"
                      /\ threads'[j].calls = <<>>
                      /\ jobs'[j].step = "Initializing"
      ]_vars

\* Two jobs at their ends, one completed and one in error after a download
\* that failed, both with a thread that has returned.
C21_Witness ==
    /\ \A j \in JobIds : IsJob(j) /\ threads[j].pc = "done"
    /\ jobs[1].status = "completed"
    /\ jobs[2].status = "error"
    /\ Len(CallsOf(1)) = 3
    /\ Ran_(2, 1, CmdDownload)

-----------------------------------------------------------------------------
(* C22 *)

\* The run of the processing script noted in a call reported a failure:
\* a configuration error, an empty filter result, or a non-zero exit status
ReportedFailure(call) ==
    \/ call.returncode # 0
    \/ call.report \in {MsgMissingObjects, MsgNotAFloat, MsgNoDataForFilter}

\* C22: when the processing script of a job has reported a failure, the
\* job's status is 'error', its 'error' field carries the report, the job is
\* not completed and no later step has been run.
C22_ProcessingFailureIsError ==
    \A j \in JobIds : \A k \in 1..Len(CallsOf(j)) :
        (Ran_(j, k, CmdProcess) /\ ReportedFailure(CallsOf(j)[k])) =>
            /\ jobs[j].status = "error"
            /\ "error" \in DOMAIN jobs[j]
            /\ jobs[j].error.stderr = CallsOf(j)[k].report
            /\ k = Len(CallsOf(j))

-----------------------------------------------------------------------------
(* C25 *)

\* What the processing script writes as the table of job j when it runs on
\* the job's own inputs: its coordinates, its filter, the data of its target
OwnTable(j) ==
    process_photometry(threads[j].objects_data,
                       FilterOfCmd(threads[j].filter_name),
                       get_data_bhtom(Archive(threads[j].target_name)).pkl,
                       NoFiles).files.csv

\* C25: the processing script of a job has read the lines of objects.dat
\* that this job wrote, and the table it has written for a job that
\* completes is the table of the job's own inputs.
C25_OwnInputs ==
    \A j \in JobIds : \A k \in 1..Len(CallsOf(j)) :
        Ran_(j, k, CmdProcess) =>
            /\ CallsOf(j)[k].objects_dat = threads[j].objects_data
            /\ (jobs[j].status = "completed" /\ OwnTable(j).exists) =>
                  CallsOf(j)[k].csv = OwnTable(j)

-----------------------------------------------------------------------------
(* C26 *)

\* The archive holds nothing of the target of job j
NothingArchived(j) == Archive(threads[j].target_name) = <<>>

\* C26: when the archive holds no data product of a job's target and the
\* download script ends by itself, the script has written the empty
\* catalog file and has exited with a non-zero status; the job is in
\* 'error' with the message 'Download failed', and its thread has returned
\* without another call: the processing never starts.
C26_NoProductsFailsDownload ==
    /\ [](\A j \in JobIds :
             (Ran_(j, 1, CmdDownload) /\ NothingArchived(j)) =>
                /\ CallsOf(j)[1].returncode # 0
                /\ Len(CallsOf(j)) = 1
                /\ threads[j].pc = "done"
                /\ jobs[j].status = "error"
                /\ jobs[j].error.prefix = "Download failed: "
                /\ jobs[j].error.stderr = "StopIteration")
    /\ [][\A j \in JobIds :
             (/\ j \in DOMAIN threads
              /\ threads[j].calls = <<>>
              /\ threads'[j].calls # <<>>
              /\ ~threads'[j].calls[1].timed_out
              /\ NothingArchived(j)) => pkl' = <<>>
       ]_vars

\* The second job's target has nothing in the archive: its download has
\* replaced the catalog file the first job's download had written by the
\* empty one, and the job is in error without a processing call.
C26_Witness ==
    /\ \A j \in JobIds : IsJob(j)
    /\ NothingArchived(2)
    /\ ~NothingArchived(1)
    /\ Ran_(1, 1, CmdDownload)
    /\ threads[1].pc = "processing"
    /\ Ran_(2, 1, CmdDownload)
    /\ pkl = <<>>
    /\ jobs[2].status = "error"

-----------------------------------------------------------------------------
(* C27 *)

\* C27: a completed job has its 'files' entry, and it has made exactly
\* three calls in this order: the download, which exited with status 0, the
\* processing, which exited with status 0, and the finder chart, whose exit
\* status may be any.
C27_CompletedRanAllSteps ==
    \A j \in JobIds :
        (IsJob(j) /\ jobs[j].status = "completed") =>
            /\ "files" \in DOMAIN jobs[j]
            /\ jobs[j].files = JobFiles
            /\ Len(CallsOf(j)) = 3
            /\ Ran_(j, 1, CmdDownload) /\ CallsOf(j)[1].returncode = 0
            /\ Ran_(j, 2, CmdProcess) /\ CallsOf(j)[2].returncode = 0
            /\ Ran_(j, 3, CmdFieldPlot)

\* A job completed although its finder chart script exited with status 1.
C27_Witness ==
    \E j \in JobIds :
        /\ IsJob(j)
        /\ jobs[j].status = "completed"
        /\ "files" \in DOMAIN jobs[j]
        /\ Len(CallsOf(j)) = 3
        /\ CallsOf(j)[3].returncode = 1

-----------------------------------------------------------------------------
(* C28 *)

\* Each of the nine required fields is in the body with a value that is
\* neither zero nor the empty text
AllGiven(data) ==
    \A f \in {"target_name", "mjd_min", "mjd_max", "target_ra", "target_dec",
              "comp1_ra", "comp1_dec", "comp2_ra", "comp2_dec"} :
        /\ f \in DOMAIN data
        /\ data[f] # Num(0)
        /\ data[f] # Str(<<>>)

\* C28: a request that has been answered has made a job and started its
\* run exactly when each of the nine required fields was given with a
\* truthy value; any other request has been answered 400, and answering it
\* leaves the jobs and the threads as they were.
C28_ValidatedOrRefused ==
    /\ [](\A i \in JobIds :
             /\ response[i] = 0 => ~IsJob(i) /\ i \notin DOMAIN threads
             /\ response[i] # 0 =>
                   IF AllGiven(request[i])
                   THEN response[i] = 200 /\ IsJob(i) /\ i \in DOMAIN threads
                   ELSE /\ response[i] = 400
                        /\ ~IsJob(i)
                        /\ i \notin DOMAIN threads)
    /\ [][\A i \in JobIds :
             (response[i] = 0 /\ response'[i] = 400) =>
                 jobs' = jobs /\ threads' = threads
       ]_vars

\* A request whose target declination is 0 has been answered 400 after the
\* other request, complete, had made its job: there is that one job.
C28_Witness ==
    /\ request[1]["target_dec"] = Num(0)
    /\ \A f \in DOMAIN request[2] : f \in DOMAIN request[1]
    /\ response[1] = 400
    /\ response[2] = 200
    /\ DOMAIN jobs = {2}
    /\ DOMAIN threads = {2}
    /\ jobs[2].status = "running"

=============================================================================
